---- MODULE Spec2Model ----
(***************************************************************************)
(* Layout Simulation & Enforcement Core of templar (apps/api/src/layout).  *)
(*                                                                         *)
(* Widths are integers in hundredths of an em: every entry of the static   *)
(* width tables is a multiple of 0.01, so 0.56 em is 56 and the default    *)
(* text_width_em of 42.7 is 4270.  A fill fraction `width / max_width` is  *)
(* kept as the exact fraction [num, den] and compared by cross             *)
(* multiplication.  A string is a sequence of characters, a character a    *)
(* one-character string.                                                   *)
(***************************************************************************)
EXTENDS Integers, Sequences, FiniteSets, TLC

(***************************************************************************)
(* Bounds of the model.                                                    *)
(***************************************************************************)
\* Largest number of draft bullets handed to run_simulation_loop.
MaxBullets == 2

\* Largest number of words in a generated input text of check_contract.
MaxWords == 3

\* Bullets in a list handed to the page fill analysis.
MaxFillBullets == 3

\* Longest bullet list that a hand-built analysis is supplied for.
MaxHandBuilt == 1

(***************************************************************************)
(* font_metrics.rs                                                         *)
(***************************************************************************)
(* The 95 printable ASCII characters 0x20..0x7E in codepoint order; the
   character at position i has codepoint i + 31, so widths[code - 32] of the
   source is widths[i] here.  A character is a one-character string; any
   other string (such as "U+00E9") stands for a non-ASCII codepoint.  The
   grave accent 0x60 cannot be written in a string of this language and is
   spelt "GRAVE". *)
AsciiPrintable ==
   <<
      " ", "!", "\"", "#", "$", "%", "&", "'", "(", ")", "*", "+", ",", "-", ".", "/",
      "0", "1", "2", "3", "4", "5", "6", "7", "8", "9", ":", ";", "<", "=", ">", "?",
      "@", "A", "B", "C", "D", "E", "F", "G", "H", "I", "J", "K", "L", "M", "N", "O",
      "P", "Q", "R", "S", "T", "U", "V", "W", "X", "Y", "Z", "[", "\\", "]", "^", "_",
      "GRAVE", "a", "b", "c", "d", "e", "f", "g", "h", "i", "j", "k", "l", "m", "n", "o",
      "p", "q", "r", "s", "t", "u", "v", "w", "x", "y", "z", "{", "|", "}", "~"
   >>

INTER_TABLE ==
   [font |-> "Inter",
    widths |-> <<
      25, 30, 38, 56, 56, 89, 67, 22, 33, 33, 39, 59, 28, 33, 28, 31,
      56, 56, 56, 56, 56, 56, 56, 56, 56, 56, 28, 28, 59, 59, 59, 50,
      102, 67, 61, 61, 67, 56, 50, 67, 67, 25, 39, 61, 53, 78, 67, 72,
      56, 72, 61, 50, 56, 67, 67, 89, 61, 61, 56, 28, 31, 28, 47, 56,
      34, 56, 56, 50, 56, 56, 31, 56, 56, 22, 22, 53, 22, 83, 56, 56,
      56, 56, 33, 44, 39, 56, 50, 72, 50, 50, 44, 33, 26, 33, 59
    >>,
    average_char_width |-> 52,
    space_width |-> 25]

EB_GARAMOND_TABLE ==
   [font |-> "EbGaramond",
    widths |-> <<
      21, 26, 32, 48, 48, 76, 57, 19, 28, 28, 33, 50, 24, 28, 24, 26,
      48, 48, 48, 48, 48, 48, 48, 48, 48, 48, 24, 24, 50, 50, 50, 43,
      87, 57, 52, 52, 57, 48, 43, 57, 57, 21, 33, 52, 45, 66, 57, 61,
      48, 61, 52, 43, 48, 57, 57, 76, 52, 52, 48, 24, 26, 24, 40, 48,
      29, 48, 48, 43, 48, 48, 26, 48, 48, 19, 19, 45, 19, 71, 48, 48,
      48, 48, 28, 37, 33, 48, 43, 61, 43, 43, 37, 28, 22, 28, 50
    >>,
    average_char_width |-> 44,
    space_width |-> 21]

LATO_TABLE ==
   [font |-> "Lato",
    widths |-> <<
      26, 32, 40, 59, 59, 94, 70, 23, 35, 35, 41, 62, 29, 35, 29, 33,
      59, 59, 59, 59, 59, 59, 59, 59, 59, 59, 29, 29, 62, 62, 62, 53,
      107, 70, 64, 64, 70, 59, 53, 70, 70, 26, 41, 64, 56, 82, 70, 76,
      59, 76, 64, 53, 59, 70, 70, 94, 64, 64, 59, 29, 33, 29, 49, 59,
      36, 59, 59, 53, 59, 59, 33, 59, 59, 23, 23, 56, 23, 87, 59, 59,
      59, 59, 35, 46, 41, 59, 53, 76, 53, 53, 46, 35, 27, 35, 62
    >>,
    average_char_width |-> 55,
    space_width |-> 26]

OSWALD_TABLE ==
   [font |-> "Oswald",
    widths |-> <<
      17, 20, 26, 38, 38, 61, 46, 15, 23, 23, 27, 40, 19, 23, 19, 21,
      38, 38, 38, 38, 38, 38, 38, 38, 38, 38, 19, 19, 40, 40, 40, 34,
      69, 46, 41, 41, 46, 38, 34, 46, 46, 17, 27, 41, 36, 53, 46, 49,
      38, 49, 41, 34, 38, 46, 46, 61, 41, 41, 38, 19, 21, 19, 32, 38,
      23, 38, 38, 34, 38, 38, 21, 38, 38, 15, 15, 36, 15, 56, 38, 38,
      38, 38, 23, 30, 27, 38, 34, 49, 34, 34, 30, 23, 18, 23, 40
    >>,
    average_char_width |-> 35,
    space_width |-> 17]

COMPUTER_MODERN_TABLE ==
   [font |-> "ComputerModern",
    widths |-> <<
      23, 27, 34, 50, 50, 80, 60, 20, 30, 30, 35, 53, 25, 30, 25, 28,
      50, 50, 50, 50, 50, 50, 50, 50, 50, 50, 25, 25, 53, 53, 53, 45,
      92, 60, 55, 55, 60, 50, 45, 60, 60, 23, 35, 55, 48, 70, 60, 65,
      50, 65, 55, 45, 50, 60, 60, 80, 55, 55, 50, 25, 28, 25, 42, 50,
      31, 50, 50, 45, 50, 50, 28, 50, 50, 20, 20, 48, 20, 75, 50, 50,
      50, 50, 30, 40, 35, 50, 45, 65, 45, 45, 40, 30, 23, 30, 53
    >>,
    average_char_width |-> 47,
    space_width |-> 23]

AsciiIndex ==
   [c \in {AsciiPrintable[i] : i \in 1..Len(AsciiPrintable)} |->
      CHOOSE i \in 1..Len(AsciiPrintable) : AsciiPrintable[i] = c]

get_metrics(font) ==
   CASE font = "Inter" -> INTER_TABLE
     [] font = "EbGaramond" -> EB_GARAMOND_TABLE
     [] font = "Lato" -> LATO_TABLE
     [] font = "Oswald" -> OSWALD_TABLE
     [] font = "ComputerModern" -> COMPUTER_MODERN_TABLE

\* Width of one character: the table entry for 0x20..0x7E, else the fallback.
char_width(metrics, c) ==
   IF c \in DOMAIN AsciiIndex
      THEN metrics.widths[AsciiIndex[c]]
      ELSE metrics.average_char_width

\* `let x = v; F(x)`: v is computed once and F applied to its value.
Let(v, F(_)) == CHOOSE r \in {F(x) : x \in {v}} : TRUE

\* Left-to-right fold of Op over s[lo..hi] starting from acc: the state of a
\* `for x in s` loop after its last iteration.  The range is halved and the
\* state after the left half is computed (bound as `left`) before the right
\* half is entered, so that long texts do not nest deeply.
RECURSIVE FoldRange(_, _, _, _, _)
FoldRange(Op(_, _), acc, s, lo, hi) ==
   IF lo > hi THEN acc
   ELSE IF lo = hi THEN Op(acc, s[lo])
   ELSE LET mid == (lo + hi) \div 2
        IN  CHOOSE r \in {FoldRange(Op, left, s, mid + 1, hi) :
                             left \in {FoldRange(Op, acc, s, lo, mid)}} : TRUE

FoldSeq(Op(_, _), acc, s) == FoldRange(Op, acc, s, 1, Len(s))

measure_str(metrics, s) ==
   FoldSeq(LAMBDA sum, c : sum + char_width(metrics, c), 0, s)

default_page_config(font) ==
   [font |-> font,
    font_size_pt |-> 11,
    text_width_em |-> 4270,
    margin_left_in |-> 100,
    margin_right_in |-> 100,
    usable_height_lines |-> 45,
    microtype_margin |-> 3]

(***************************************************************************)
(* contract.rs                                                             *)
(***************************************************************************)
\* Fractions: fill = width / max_width.
Frac(n, d) == [num |-> n, den |-> d]

\* FracLess with <= in place of <.
FracLessOrEqual(a, b) == a.num * b.den <= b.num * a.den

FracLess(a, b) == a.num * b.den < b.num * a.den

\* A one-line threshold of 0.40.
MIN_1LINE_FILL_lenient == Frac(40, 100)

MIN_1LINE_FILL == Frac(80, 100)

MIN_2LINE_L2_FILL == Frac(70, 100)

\* `len as u8`: the cast keeps the low 8 bits.
U8_RANGE == 256

AsU8(n) == n % U8_RANGE

IsWhitespace(c) == c \in {" ", "\t", "\n", "\r"}

\* str::split_whitespace: the maximal runs of non-whitespace characters.
\* st.word is the run being read, st.words the runs already closed.
split_step(st, c) ==
   IF IsWhitespace(c)
      THEN [word |-> <<>>,
            words |-> IF st.word = <<>> THEN st.words
                      ELSE Append(st.words, st.word)]
      ELSE [word |-> Append(st.word, c), words |-> st.words]

split_whitespace(text) ==
   Let(FoldSeq(split_step, [word |-> <<>>, words |-> <<>>], text),
       LAMBDA st : IF st.word = <<>> THEN st.words
                   ELSE Append(st.words, st.word))

\* One iteration of the `for word in &words` loop of simulate_lines.
wrap_step(st, word, metrics, max_width) ==
   LET word_w == measure_str(metrics, word)
       space_w == IF st.first_on_line THEN 0 ELSE metrics.space_width
   IN  IF ~st.first_on_line /\ st.current_width + space_w + word_w > max_width
          THEN [line_fills |-> Append(st.line_fills,
                                      Frac(st.current_width, max_width)),
                current_width |-> word_w,
                first_on_line |-> st.first_on_line]
          ELSE [line_fills |-> st.line_fills,
                current_width |-> st.current_width + space_w + word_w,
                first_on_line |-> FALSE]

\* Greedy word wrap: <<line_count, per-line fills>>.
simulate_lines(text, metrics, config) ==
   Let(split_whitespace(text), LAMBDA words :
      IF words = <<>>
         THEN <<0, <<>>>>
         ELSE Let(FoldSeq(LAMBDA s, w : wrap_step(s, w, metrics,
                                                  config.text_width_em),
                          [line_fills |-> <<>>,
                           current_width |-> 0,
                           first_on_line |-> TRUE],
                          words),
                  LAMBDA st :
                     Let(Append(st.line_fills,
                                Frac(st.current_width, config.text_width_em)),
                         LAMBDA line_fills :
                            <<AsU8(Len(line_fills)), line_fills>>)))

None == [tag |-> "None"]

Some(v) == [tag |-> "Some", value |-> v]

Satisfies == [tag |-> "Satisfies"]

TooShort(f, r) == [tag |-> "TooShort", fill_ratio |-> f, required |-> r]

TooLong(n) == [tag |-> "TooLong", actual_lines |-> n]

SecondLineTooShort(f) == [tag |-> "SecondLineTooShort", fill_ratio |-> f]

check_contract(bullet_index, text, metrics, config) ==
   Let(simulate_lines(text, metrics, config), LAMBDA sim :
      LET line_count == sim[1]
          fills == sim[2]
          line1_fill == IF Len(fills) >= 1 THEN fills[1] ELSE Frac(0, 1)
          line2_fill == IF Len(fills) >= 2 THEN Some(fills[2]) ELSE None
          verdict ==
             IF line_count = 0 \/ line_count = 1
                THEN IF FracLess(line1_fill, MIN_1LINE_FILL)
                        THEN TooShort(line1_fill, MIN_1LINE_FILL)
                        ELSE Satisfies
             ELSE IF line_count = 2
                THEN IF line2_fill.tag = "Some"
                          /\ FracLess(line2_fill.value, MIN_2LINE_L2_FILL)
                        THEN SecondLineTooShort(line2_fill.value)
                        ELSE Satisfies
             ELSE TooLong(line_count)
      IN  [bullet_index |-> bullet_index,
           text |-> text,
           simulated_line_count |-> line_count,
           line1_fill |-> line1_fill,
           line2_fill |-> line2_fill,
           verdict |-> verdict])

(***************************************************************************)
(* simulator.rs                                                            *)
(***************************************************************************)
\* A single pass.
MAX_PASSES_single == 3 - 2

\* `0..=MAX_PASSES`: one pass too many.
MAX_PASSES_inclusive == 3 + 1

MAX_PASSES == 3

\* f32::round of a positive quotient a / b (half away from zero), as usize.
RoundDiv(a, b) == (2 * a + b) \div (2 * b)

estimate_char_budget(config) ==
   RoundDiv(config.text_width_em, get_metrics(config.font).average_char_width)

\* init_simulated projecting the drafts last to first.
init_simulated_reversed(bullets) ==
   [i \in 1..Len(bullets) |->
      [text |-> bullets[Len(bullets) + 1 - i].text,
       source_entry_id |-> bullets[Len(bullets) + 1 - i].source_entry_id,
       section |-> bullets[Len(bullets) + 1 - i].section,
       verified_line_count |-> bullets[Len(bullets) + 1 - i].line_estimate,
       jd_keywords_used |-> bullets[Len(bullets) + 1 - i].jd_keywords_used,
       was_adjusted |-> FALSE,
       flagged_for_review |-> FALSE]]

init_simulated(bullets) ==
   [i \in 1..Len(bullets) |->
      [text |-> bullets[i].text,
       source_entry_id |-> bullets[i].source_entry_id,
       section |-> bullets[i].section,
       verified_line_count |-> bullets[i].line_estimate,
       jd_keywords_used |-> bullets[i].jd_keywords_used,
       was_adjusted |-> FALSE,
       flagged_for_review |-> FALSE]]

\* single_pass_from collecting the violations last bullet first.
RECURSIVE single_pass_from_reversed(_, _, _, _)
single_pass_from_reversed(bullets, i, metrics, config) ==
   IF i > Len(bullets) THEN <<>>
   ELSE Let(check_contract(i, bullets[i].text, metrics, config), LAMBDA result :
           LET rest == single_pass_from_reversed(bullets, i + 1, metrics, config)
           IN  IF result.verdict.tag = "Satisfies"
                  THEN rest
                  ELSE rest \o <<[idx |-> i, result |-> result]>>)

\* filter_map over the enumerated bullets, from bullet i on; indices are
\* 1-based here (bullet_index i stands for the source's index i - 1).
RECURSIVE single_pass_from(_, _, _, _)
single_pass_from(bullets, i, metrics, config) ==
   IF i > Len(bullets) THEN <<>>
   ELSE Let(check_contract(i, bullets[i].text, metrics, config), LAMBDA result :
           LET rest == single_pass_from(bullets, i + 1, metrics, config)
           IN  IF result.verdict.tag = "Satisfies"
                  THEN rest
                  ELSE <<[idx |-> i, result |-> result]>> \o rest)

run_single_pass_sync(bullets, metrics, config) ==
   single_pass_from(bullets, 1, metrics, config)

\* measure_line_counts without `.max(1)`.
measure_line_counts_unclamped(bullets, metrics, config) ==
   [i \in 1..Len(bullets) |-> simulate_lines(bullets[i].text, metrics, config)[1]]

\* The final measurement closure: simulate_lines(..).0.max(1) per bullet.
measure_line_counts(bullets, metrics, config) ==
   [i \in 1..Len(bullets) |->
      Let(simulate_lines(bullets[i].text, metrics, config)[1],
          LAMBDA count : IF count >= 1 THEN count ELSE 1)]

\* adjust_call with the one-line budget in every arm.
adjust_call_one_line_budget(verdict, text, char_budget) ==
   CASE verdict.tag = "TooShort" ->
           [kind |-> "expand", text |-> text,
            fill_ratio |-> verdict.fill_ratio, char_budget |-> char_budget]
     [] verdict.tag = "TooLong" ->
           [kind |-> "compress", text |-> text,
            actual_lines |-> verdict.actual_lines, char_budget |-> char_budget]
     [] verdict.tag = "SecondLineTooShort" ->
           [kind |-> "expand", text |-> text,
            fill_ratio |-> verdict.fill_ratio, char_budget |-> char_budget]

\* The gateway call a verdict leads to: expand_bullet / compress_bullet with
\* the arguments of the match arm.
adjust_call(verdict, text, char_budget) ==
   CASE verdict.tag = "TooShort" ->
           [kind |-> "expand", text |-> text,
            fill_ratio |-> verdict.fill_ratio, char_budget |-> char_budget]
     [] verdict.tag = "TooLong" ->
           [kind |-> "compress", text |-> text,
            actual_lines |-> verdict.actual_lines, char_budget |-> char_budget]
     [] verdict.tag = "SecondLineTooShort" ->
           [kind |-> "expand", text |-> text,
            fill_ratio |-> verdict.fill_ratio, char_budget |-> char_budget * 2]

\* apply_adjusted that replaces the text and leaves was_adjusted alone.
apply_adjusted_unmarked(bullet, adjusted_text) ==
   [bullet EXCEPT !.text = adjusted_text]

\* apply_adjusted without the comparison: every return marks the bullet.
apply_adjusted_unconditional(bullet, adjusted_text) ==
   [bullet EXCEPT !.text = adjusted_text, !.was_adjusted = TRUE]

\* apply_adjusted that marks the bullet and drops the new text.
apply_adjusted_keeps_text(bullet, adjusted_text) ==
   IF adjusted_text # bullet.text
      THEN [bullet EXCEPT !.was_adjusted = TRUE]
      ELSE bullet

\* `if adjusted_text != bullet.text { bullet.text = ..; was_adjusted = true }`
apply_adjusted(bullet, adjusted_text) ==
   IF adjusted_text # bullet.text
      THEN [bullet EXCEPT !.text = adjusted_text, !.was_adjusted = TRUE]
      ELSE bullet

\* flag_violators sparing the bullets the gateway has rewritten.
flag_violators_unadjusted(bullets, final_violations) ==
   [i \in 1..Len(bullets) |->
      IF /\ \E k \in 1..Len(final_violations) : final_violations[k].idx = i
         /\ ~bullets[i].was_adjusted
         THEN [bullets[i] EXCEPT !.flagged_for_review = TRUE]
         ELSE bullets[i]]

\* flag_violators indexing by position in final_violations, not by idx.
flag_violators_by_position(bullets, final_violations) ==
   [i \in 1..Len(bullets) |->
      IF i <= Len(final_violations)
         THEN [bullets[i] EXCEPT !.flagged_for_review = TRUE]
         ELSE bullets[i]]

\* The loop over final_violations: flag every violating index.
flag_violators(bullets, final_violations) ==
   [i \in 1..Len(bullets) |->
      IF \E k \in 1..Len(final_violations) : final_violations[k].idx = i
         THEN [bullets[i] EXCEPT !.flagged_for_review = TRUE]
         ELSE bullets[i]]

\* Result<String, AppError> of expand_bullet / compress_bullet.
GatewayOk(text) == [tag |-> "Ok", text |-> text]

GatewayErr(failure) == [tag |-> "Err", failure |-> failure]

Ok(v) == [tag |-> "Ok", value |-> v]

Err(kind, context) == [tag |-> "Err", kind |-> kind, context |-> context]

(***************************************************************************)
(* page_fill.rs.  Fractions are exact here as well.  fill_ratio is a        *)
(* quotient of two u16 values, so it differs from 1.05 and from 0.92 either *)
(* not at all or by more than 1/(25 * 65535), which is more than the f32    *)
(* rounding of the quotient; at exact equality the f32 quotient is the f32  *)
(* literal, and 1.0 - 0.92f32 is below 0.08f32.  The comparisons therefore  *)
(* agree with the f32 ones.  Positions in a bullet list are counted from 1. *)
(***************************************************************************)
U16_RANGE == 65536

AsU16(n) == n % U16_RANGE

\* char::to_lowercase on the ASCII letters; other characters are kept.
ToLowerChar(c) ==
   IF c \in DOMAIN AsciiIndex /\ AsciiIndex[c] \in 34..59
      THEN AsciiPrintable[AsciiIndex[c] + 32]
      ELSE c

to_lowercase(str) == [i \in 1..Len(str) |-> ToLowerChar(str[i])]

FracSub(a, b) == Frac(a.num * b.den - b.num * a.den, a.den * b.den)

\* f32::max
FracMax(a, b) == IF FracLess(a, b) THEN b ELSE a

\* The lower-cased keyword strings of the JD.
jd_keyword_set(parsed_jd) ==
   {to_lowercase(parsed_jd.keyword_inventory[k].keyword) :
       k \in 1..Len(parsed_jd.keyword_inventory)}

\* Iterator::min_by over the positions idxs: the first of the minimal elements.
min_by(idxs, Score(_)) ==
   FoldSeq(LAMBDA a, b : IF Score(a) > Score(b) THEN b ELSE a,
           idxs[1], Tail(idxs))

\* Iterator::max_by over the positions idxs: the last of the maximal elements.
max_by(idxs, Score(_)) ==
   FoldSeq(LAMBDA a, b : IF Score(a) > Score(b) THEN a ELSE b,
           idxs[1], Tail(idxs))

\* analyze_page_fill with the thresholds of the major and minor branch swapped.
analyze_page_fill_swapped(bullets, config) ==
   LET total_lines_used ==
          FoldSeq(LAMBDA sum, b : AsU16(sum + b.verified_line_count), 0, bullets)
       available == config.usable_height_lines
       fill_ratio == Frac(total_lines_used, available)
       whitespace_fraction == FracMax(FracSub(Frac(1, 1), fill_ratio), Frac(0, 1))
       overflow_fraction == FracMax(FracSub(fill_ratio, Frac(1, 1)), Frac(0, 1))
       verdict ==
          IF FracLess(Frac(105, 100), fill_ratio) THEN "MinorOverflow"
          ELSE IF FracLess(Frac(100, 100), fill_ratio) THEN "MajorOverflow"
          ELSE IF FracLess(Frac(8, 100), whitespace_fraction)
                  THEN "TooMuchWhitespace"
          ELSE "Acceptable"
   IN  [total_lines_used |-> total_lines_used,
        total_lines_available |-> available,
        whitespace_fraction |-> whitespace_fraction,
        overflow_fraction |-> overflow_fraction,
        verdict |-> verdict]

analyze_page_fill(bullets, config) ==
   LET total_lines_used ==
          FoldSeq(LAMBDA sum, b : AsU16(sum + b.verified_line_count), 0, bullets)
       available == config.usable_height_lines
       fill_ratio == Frac(total_lines_used, available)
       whitespace_fraction == FracMax(FracSub(Frac(1, 1), fill_ratio), Frac(0, 1))
       overflow_fraction == FracMax(FracSub(fill_ratio, Frac(1, 1)), Frac(0, 1))
       verdict ==
          IF FracLess(Frac(105, 100), fill_ratio) THEN "MajorOverflow"
          ELSE IF FracLess(Frac(100, 100), fill_ratio) THEN "MinorOverflow"
          ELSE IF FracLess(Frac(8, 100), whitespace_fraction)
                  THEN "TooMuchWhitespace"
          ELSE "Acceptable"
   IN  [total_lines_used |-> total_lines_used,
        total_lines_available |-> available,
        whitespace_fraction |-> whitespace_fraction,
        overflow_fraction |-> overflow_fraction,
        verdict |-> verdict]

keyword_match_score(used_keywords, keyword_set) ==
   Cardinality({i \in 1..Len(used_keywords) :
                   to_lowercase(used_keywords[i]) \in keyword_set})

\* find_lowest_scoring_bullet taking the last of the minimal bullets.
find_lowest_scoring_bullet_last(bullets, parsed_jd) ==
   IF bullets = <<>> THEN None
   ELSE LET Score(i) == keyword_match_score(bullets[i].jd_keywords_used,
                                            jd_keyword_set(parsed_jd))
        IN  Some(FoldSeq(LAMBDA a, b : IF Score(a) >= Score(b) THEN b ELSE a,
                         1, [i \in 1..(Len(bullets) - 1) |-> i + 1]))

find_lowest_scoring_bullet(bullets, parsed_jd) ==
   IF bullets = <<>> THEN None
   ELSE LET Score(i) == keyword_match_score(bullets[i].jd_keywords_used,
                                            jd_keyword_set(parsed_jd))
        IN  Some(min_by([i \in 1..Len(bullets) |-> i], Score))

find_best_promotion_candidate(bullets, parsed_jd) ==
   LET Score(i) == keyword_match_score(bullets[i].jd_keywords_used,
                                       jd_keyword_set(parsed_jd))
       candidates ==
          FoldSeq(LAMBDA acc, i :
                     IF /\ bullets[i].verified_line_count = 1
                        /\ ~bullets[i].flagged_for_review
                        THEN Append(acc, i) ELSE acc,
                  <<>>, [i \in 1..Len(bullets) |-> i])
   IN  IF candidates = <<>> THEN None ELSE Some(max_by(candidates, Score))

PromoteBullet(bullet_index) ==
   [tag |-> "PromoteBullet", bullet_index |-> bullet_index]

CompressBullet(bullet_index) ==
   [tag |-> "CompressBullet", bullet_index |-> bullet_index]

RemoveBullet(bullet_index) ==
   [tag |-> "RemoveBullet", bullet_index |-> bullet_index]

TightenSpacing == [tag |-> "TightenSpacing"]

NoAction == [tag |-> "NoAction"]

\* recommend_fill_action answering TightenSpacing when nothing can be promoted.
recommend_fill_action_tighten(analysis, bullets, parsed_jd) ==
   CASE analysis.verdict = "Acceptable" -> NoAction
     [] analysis.verdict = "TooMuchWhitespace" ->
           LET found == find_best_promotion_candidate(bullets, parsed_jd)
           IN  IF found.tag = "Some" THEN PromoteBullet(found.value)
               ELSE TightenSpacing
     [] analysis.verdict = "MinorOverflow" ->
           LET found == find_lowest_scoring_bullet(bullets, parsed_jd)
           IN  IF found.tag = "Some" THEN CompressBullet(found.value)
               ELSE TightenSpacing
     [] analysis.verdict = "MajorOverflow" ->
           LET found == find_lowest_scoring_bullet(bullets, parsed_jd)
           IN  IF found.tag = "Some" THEN RemoveBullet(found.value)
               ELSE TightenSpacing

recommend_fill_action(analysis, bullets, parsed_jd) ==
   CASE analysis.verdict = "Acceptable" -> NoAction
     [] analysis.verdict = "TooMuchWhitespace" ->
           LET found == find_best_promotion_candidate(bullets, parsed_jd)
           IN  IF found.tag = "Some" THEN PromoteBullet(found.value)
               ELSE NoAction
     [] analysis.verdict = "MinorOverflow" ->
           LET found == find_lowest_scoring_bullet(bullets, parsed_jd)
           IN  IF found.tag = "Some" THEN CompressBullet(found.value)
               ELSE TightenSpacing
     [] analysis.verdict = "MajorOverflow" ->
           LET found == find_lowest_scoring_bullet(bullets, parsed_jd)
           IN  IF found.tag = "Some" THEN RemoveBullet(found.value)
               ELSE TightenSpacing

(***************************************************************************)
(* score_promotion                                                         *)
(***************************************************************************)
\* u8::is_ascii_digit
is_ascii_digit(c) == c \in {"0", "1", "2", "3", "4", "5", "6", "7", "8", "9"}

\* str::contains: pat occurs as a contiguous run of str.
contains(str, pat) ==
   \E i \in 0..(Len(str) - Len(pat)) : SubSeq(str, i + 1, i + Len(pat)) = pat

\* f32::min
FracMin(a, b) == IF FracLess(b, a) THEN b ELSE a

has_quantified_outcome(text) ==
   LET lower == to_lowercase(text)
   IN  \E i \in 1..Len(lower) :
          /\ is_ascii_digit(lower[i])
          /\ \/ /\ i + 1 <= Len(lower)
                /\ lower[i + 1] \in {"%", "x", "k", "m"}
             \/ /\ i > 1
                /\ lower[i - 1] = "$"

\* The positions of the inventory whose position_weight is at least 0.6.
high_weight_keywords(parsed_jd) ==
   {k \in 1..Len(parsed_jd.keyword_inventory) :
       parsed_jd.keyword_inventory[k].position_weight >= 60}

\* compute_technical_depth that is 0.0 when no keyword is high-weight.
compute_technical_depth_zero(text, parsed_jd) ==
   LET text_lower == to_lowercase(text)
       high == high_weight_keywords(parsed_jd)
       matched ==
          Cardinality({k \in high :
             contains(text_lower,
                      to_lowercase(parsed_jd.keyword_inventory[k].keyword))})
   IN  IF high = {} THEN Frac(0, 10)
       ELSE FracMin(Frac(matched, Cardinality(high)), Frac(1, 1))

compute_technical_depth(text, parsed_jd) ==
   LET text_lower == to_lowercase(text)
       high == high_weight_keywords(parsed_jd)
       matched ==
          Cardinality({k \in high :
             contains(text_lower,
                      to_lowercase(parsed_jd.keyword_inventory[k].keyword))})
   IN  IF high = {} THEN Frac(5, 10)
       ELSE FracMin(Frac(matched, Cardinality(high)), Frac(1, 1))

compute_jd_relevance(used_keywords, parsed_jd) ==
   LET high_weight_set ==
          {to_lowercase(parsed_jd.keyword_inventory[k].keyword) :
              k \in high_weight_keywords(parsed_jd)}
       matched ==
          Cardinality({j \in 1..Len(used_keywords) :
             to_lowercase(used_keywords[j]) \in high_weight_set})
   IN  IF used_keywords = <<>> THEN Frac(0, 1)
       ELSE FracMin(Frac(matched, Len(used_keywords)), Frac(1, 1))

\* score_promotion without the jd_relevance conjunct.
score_promotion_two_dimensions(bullet, parsed_jd) ==
   LET quantified_outcome ==
          IF has_quantified_outcome(bullet.text) THEN Frac(1, 1) ELSE Frac(0, 1)
       technical_depth == compute_technical_depth(bullet.text, parsed_jd)
       jd_relevance == compute_jd_relevance(bullet.jd_keywords_used, parsed_jd)
   IN  [quantified_outcome |-> quantified_outcome,
        technical_depth |-> technical_depth,
        jd_relevance |-> jd_relevance,
        eligible_for_two_lines |->
           /\ ~FracLess(quantified_outcome, Frac(7, 10))
           /\ ~FracLess(technical_depth, Frac(7, 10))]

score_promotion(bullet, parsed_jd) ==
   LET quantified_outcome ==
          IF has_quantified_outcome(bullet.text) THEN Frac(1, 1) ELSE Frac(0, 1)
       technical_depth == compute_technical_depth(bullet.text, parsed_jd)
       jd_relevance == compute_jd_relevance(bullet.jd_keywords_used, parsed_jd)
   IN  [quantified_outcome |-> quantified_outcome,
        technical_depth |-> technical_depth,
        jd_relevance |-> jd_relevance,
        eligible_for_two_lines |->
           /\ ~FracLess(quantified_outcome, Frac(7, 10))
           /\ ~FracLess(technical_depth, Frac(7, 10))
           /\ ~FracLess(jd_relevance, Frac(7, 10))]

(***************************************************************************)
(* llm_client/mod.rs                                                       *)
(***************************************************************************)
\* A fourth attempt.
MAX_RETRIES_four == 3 + 1

MAX_RETRIES == 3

\* StatusCode::is_success
is_success(status) == status \in 200..299

\* StatusCode::is_server_error
is_server_error(status) == status \in 500..599

\* LlmError
LlmHttp == [kind |-> "Http"]

LlmApi(status, message) ==
   [kind |-> "Api", status |-> status, message |-> message]

LlmParse == [kind |-> "Parse"]

LlmEmptyContent == [kind |-> "EmptyContent"]

LlmErr(e) == [tag |-> "Err", error |-> e]

\* LlmResponse::text: the text of the first block of type "text".
response_text(response) ==
   LET text_blocks == {k \in 1..Len(response.content) :
                         response.content[k].block_type = "text"}
   IN  IF text_blocks = {} THEN None
       ELSE response.content[CHOOSE k \in text_blocks :
                                \A j \in text_blocks : k <= j].text

\* str::trim_start
trim_start(str) ==
   IF \A k \in 1..Len(str) : IsWhitespace(str[k]) THEN <<>>
   ELSE SubSeq(str,
               CHOOSE k \in 1..Len(str) :
                  /\ ~IsWhitespace(str[k])
                  /\ \A j \in 1..(k - 1) : IsWhitespace(str[j]),
               Len(str))

\* str::trim: trim_start, then the same from the end.
trim(str) ==
   Let(trim_start(str), LAMBDA started :
      IF started = <<>> THEN <<>>
      ELSE SubSeq(started,
                  1,
                  CHOOSE k \in 1..Len(started) :
                     /\ ~IsWhitespace(started[k])
                     /\ \A j \in (k + 1)..Len(started) :
                           IsWhitespace(started[j])))

\* str::strip_prefix
strip_prefix(str, prefix) ==
   IF Len(str) >= Len(prefix) /\ SubSeq(str, 1, Len(prefix)) = prefix
      THEN Some(SubSeq(str, Len(prefix) + 1, Len(str)))
      ELSE None

\* str::strip_suffix
strip_suffix(str, suffix) ==
   IF /\ Len(str) >= Len(suffix)
      /\ SubSeq(str, Len(str) - Len(suffix) + 1, Len(str)) = suffix
      THEN Some(SubSeq(str, 1, Len(str) - Len(suffix)))
      ELSE None

\* Three grave accents.
FENCE == <<"GRAVE", "GRAVE", "GRAVE">>

\* The body shared by the two fenced branches of strip_json_fences.
strip_fenced(stripped) ==
   Let(trim_start(stripped), LAMBDA started :
      Let(strip_suffix(started, FENCE), LAMBDA inner :
         IF inner.tag = "Some" THEN trim(inner.value) ELSE started))

strip_json_fences(text) ==
   Let(trim(text), LAMBDA trimmed :
      Let(strip_prefix(trimmed, FENCE \o <<"j", "s", "o", "n">>),
          LAMBDA tagged :
         IF tagged.tag = "Some" THEN strip_fenced(tagged.value)
         ELSE Let(strip_prefix(trimmed, FENCE), LAMBDA plain :
                 IF plain.tag = "Some" THEN strip_fenced(plain.value)
                 ELSE trimmed)))

\* serde_json::from_str::<u8> on the texts of the model: a single digit,
\* surrounded by whitespace or not, is a value; any other text is an error.
from_str(text) ==
   Let(trim(text), LAMBDA digits :
      IF Len(digits) = 1 /\ is_ascii_digit(digits[1])
         THEN Ok(digits[1])
         ELSE LlmErr(LlmParse))

\* Lines 204-211: call_json after `call` has returned.
call_json_finish(call_ret) ==
   IF call_ret.tag = "Err" THEN call_ret
   ELSE Let(response_text(call_ret.value), LAMBDA text :
           IF text.tag = "None" THEN LlmErr(LlmEmptyContent)
           ELSE Let(strip_json_fences(text.value), LAMBDA stripped :
                   from_str(stripped)))

(***************************************************************************)
(* Inputs of the model.                                                    *)
(***************************************************************************)
RUST == <<"R", "u", "s", "t">>

DISTRIBUTED == <<"d", "i", "s", "t", "r", "i", "b", "u", "t", "e", "d">>

KUBERNETES == <<"k", "u", "b", "e", "r", "n", "e", "t", "e", "s">>

\* An entry of the keyword inventory; weights are in hundredths.
KeywordEntry(keyword, frequency, position_weight) ==
   [keyword |-> keyword,
    frequency |-> frequency,
    position_weight |-> position_weight,
    weighted_score |-> frequency * position_weight]

Str1(a) == <<a>>

\* words joined by single spaces
RECURSIVE JoinWords(_)
JoinWords(ws) ==
   IF ws = <<>> THEN <<>>
   ELSE IF Len(ws) = 1 THEN ws[1]
   ELSE ws[1] \o <<" ">> \o JoinWords(Tail(ws))

\* n copies of word w separated by single spaces
RepeatWord(w, n) ==
   [i \in 1..(n * (Len(w) + 1) - 1) |->
      LET k == (i - 1) % (Len(w) + 1)
      IN  IF k = Len(w) THEN " " ELSE w[k + 1]]

\* A page one em wide set in Inter: "W" (0.89) fills a line, "i" (0.22) does not.
NarrowConfig(font) == [default_page_config(font) EXCEPT !.text_width_em = 100]

LoopConfigs == {NarrowConfig("Inter")}

\* Draft texts on the narrow page: the empty text is TooShort, "W" Satisfies,
\* "W W W" is TooLong (three lines).
DraftTexts == {<<>>, <<"W">>, RepeatWord(<<"W">>, 3)}

\* Texts the gateway may answer with: "W" Satisfies, {"text": ""} is TooShort,
\* "W i" is SecondLineTooShort.
GatewayTexts == {<<"W">>, <<>>, <<"W", " ", "i">>}

BUILT_IT ==
   <<"B", "u", "i", "l", "t", " ", "i", "t", ".">>

\* "word " repeated 50 times
WORD_50 == RepeatWord(<<"w", "o", "r", "d">>, 50) \o <<" ">>

CACHING_LAYER ==
   <<"B", "u", "i", "l", "t", " ", "a", " ", "d", "i", "s", "t", "r", "i",
     "b", "u", "t", "e", "d", " ", "c", "a", "c", "h", "i", "n", "g", " ",
     "l", "a", "y", "e", "r", " ", "i", "n", " ", "R", "u", "s", "t", ",",
     " ", "r", "e", "d", "u", "c", "i", "n", "g", " ", "p", "9", "9", " ",
     "l", "a", "t", "e", "n", "c", "y", " ", "4", "0", "%", " ", "a", "c",
     "r", "o", "s", "s", " ", "5", " ", "s", "e", "r", "v", "i", "c", "e",
     "s">>

PRODUCTION_SCALE ==
   <<"B", "u", "i", "l", "t", " ", "p", "r", "o", "d", "u", "c", "t", "i",
     "o", "n", "-", "s", "c", "a", "l", "e", " ", "d", "i", "s", "t", "r",
     "i", "b", "u", "t", "e", "d", " ", "s", "y", "s", "t", "e", "m", "s">>

\* Runs with one draft and a gateway stub that always returns the same text.
StubbedRuns ==
   {[draft |-> BUILT_IT, stub |-> CACHING_LAYER],
    [draft |-> WORD_50, stub |-> PRODUCTION_SCALE],
    [draft |-> BUILT_IT, stub |-> BUILT_IT]}

\* Ways a gateway call fails: call_json returns an error, or the response
\* does not decode as {"text": string}.
GatewayFailures == {"gateway_error", "malformed_response"}

\* The generator's advisory line estimate ("Must be 1 or 2").
LineEstimates == {1, 2}

\* n draft bullets with the given texts; the bullets of one run carry the
\* same estimate.
MakeDrafts(texts, estimate) ==
   [i \in 1..Len(texts) |->
      [text |-> texts[i],
       source_entry_id |-> i,
       section |-> "experience",
       line_estimate |-> estimate,
       jd_keywords_used |-> <<RUST>>]]

\* Input texts of check_contract: up to MaxWords words over a small
\* vocabulary, texts with irregular whitespace, and texts of about 2^8 lines.
Vocabulary == {<<"i">>, <<"W">>, <<"t", "f">>, <<"c", "!">>, <<"W", "W">>}

WordTexts ==
   UNION {{JoinWords(ws) : ws \in [1..n -> Vocabulary]} : n \in 0..MaxWords}

SpacedTexts ==
   {<<" ">>, <<" ", "i">>, <<"W", " ", " ", "\t", "i", " ">>, <<"U+00E9", "i">>}

LongTexts == {RepeatWord(<<"W">>, U8_RANGE + k) : k \in -1..3}

\* The last set: one unbroken word of 47 and of 48 "W", 41.83 em and
\* 42.72 em, either side of the default text width of 42.7 em.
ContractTexts ==
   WordTexts \cup SpacedTexts \cup LongTexts
      \cup {[i \in 1..n |-> "W"] : n \in {47, 48}}

ContractConfigs ==
   {default_page_config("Inter"), NarrowConfig("Inter"), NarrowConfig("Oswald")}

\* HTTP statuses a response may carry.
HttpStatuses == {200, 201, 301, 400, 401, 404, 429, 500, 503, 529}

\* Bodies of a response that is not a success: plain text, or the JSON error
\* object of the API with its message.
ErrorBodies ==
   {[raw |-> "overloaded", error_message |-> None],
    [raw |-> "{error}", error_message |-> Some("invalid x-api-key")]}

ContentBlock(block_type, text) == [block_type |-> block_type, text |-> text]

\* Bodies of a success response: one that does not decode as an LlmResponse
\* and decoded responses with no block, no text block, a text block without
\* text, and a text block after a block of another type.  The texts of that
\* block are JSON with and without code fences, an unclosed fence, and text
\* that is not JSON.
SuccessBodies ==
   {[decodes |-> FALSE, content |-> <<>>],
    [decodes |-> TRUE, content |-> <<>>],
    [decodes |-> TRUE, content |-> <<ContentBlock("tool_use", None)>>],
    [decodes |-> TRUE, content |-> <<ContentBlock("text", None),
                                     ContentBlock("text", Some(<<"7">>))>>]}
   \cup
   {[decodes |-> TRUE,
     content |-> <<ContentBlock("thinking", Some(<<"7">>)),
                   ContentBlock("text", Some(text))>>] :
       text \in {<<"7">>,
                 <<" ", "7", "\n">>,
                 FENCE \o <<"j", "s", "o", "n", "\n", "7", "\n">> \o FENCE,
                 FENCE \o <<"\n", "7", "\n">> \o FENCE \o <<"\n">>,
                 FENCE \o <<"j", "s", "o", "n", " ", "7">>,
                 <<"7", " ", "x">>,
                 <<>>}}

\* Pairs of page configurations that differ in text_width_em only, the
\* narrower first.  The widths are 1.0, 2.03 and 42.7 em: one "W", two "W"
\* and about 37 "W" to the line in Inter.
WidthPairs ==
   {<<[default_page_config(font) EXCEPT !.text_width_em = ws[1]],
      [default_page_config(font) EXCEPT !.text_width_em = ws[2]]>> :
       font \in {"Inter", "Oswald"},
       ws \in {p \in {100, 203, 4270} \X {100, 203, 4270} : p[1] < p[2]}}

\* The parsed JD of the page fill tests: "Rust" (0.8) and "distributed" (0.6).
PAGE_FILL_JD ==
   [keyword_inventory |-> <<KeywordEntry(RUST, 5, 80),
                            KeywordEntry(DISTRIBUTED, 3, 60)>>]

\* make_bullet of the page fill tests.
make_bullet(line_count, keywords, flagged) ==
   [text |-> <<"A", "r", "c", "h", "i", "t", "e", "c", "t", "e", "d", " ",
               "s", "y", "s", "t", "e", "m", "s">>,
    source_entry_id |-> 0,
    section |-> "experience",
    verified_line_count |-> line_count,
    jd_keywords_used |-> keywords,
    was_adjusted |-> FALSE,
    flagged_for_review |-> flagged]

\* make_parsed_jd of the contract tests.
make_parsed_jd ==
   [keyword_inventory |-> <<KeywordEntry(RUST, 5, 80),
                            KeywordEntry(DISTRIBUTED, 3, 60),
                            KeywordEntry(KUBERNETES, 2, 40)>>]

GO == <<"g", "o">>

\* Keyword inventories with no, two, three and four keywords of
\* position_weight >= 0.6, and one with low-weight keywords only.
PromotionJDs ==
   {make_parsed_jd,
    [keyword_inventory |-> <<>>],
    [keyword_inventory |-> <<KeywordEntry(RUST, 5, 50),
                             KeywordEntry(DISTRIBUTED, 3, 40)>>],
    [keyword_inventory |-> <<KeywordEntry(RUST, 5, 80),
                             KeywordEntry(DISTRIBUTED, 3, 60),
                             KeywordEntry(KUBERNETES, 2, 60)>>],
    [keyword_inventory |-> <<KeywordEntry(RUST, 5, 80),
                             KeywordEntry(DISTRIBUTED, 3, 60),
                             KeywordEntry(KUBERNETES, 2, 60),
                             KeywordEntry(GO, 1, 70)>>]}

\* The words that open a bullet text: some of the JD keywords, in either case.
PromotionKeywordWords ==
   {<<>>,
    <<RUST>>,
    <<DISTRIBUTED, RUST>>,
    <<<<"R", "U", "S", "T">>, DISTRIBUTED>>,
    <<DISTRIBUTED, <<"r", "u", "s", "t">>, KUBERNETES>>}

\* The word that closes a bullet text: with and without a quantified pattern.
PromotionOutcomeWords ==
   {<<"b", "y">>,
    <<"4", "0", "%">>,
    <<"3", ".", "4", "7", "X">>,
    <<"5", "0", "0", "k">>,
    <<"4", "2", "M">>,
    <<"$", "4", "0">>,
    <<"4", "0">>,
    <<"%", "4">>,
    <<"x", "5">>,
    <<"$", "m">>,
    <<"5", "$">>}

PromotionTexts ==
   {JoinWords(Append(ws, w)) :
       ws \in PromotionKeywordWords, w \in PromotionOutcomeWords}

\* Used-keyword lists of which none, 2 of 3, 7 of 10, 3 of 4 and all are
\* high-weight keywords of make_parsed_jd.
PromotionKeywordLists ==
   {<<>>,
    <<GO>>,
    <<<<"r", "u", "s", "t">>>>,
    <<RUST, DISTRIBUTED>>,
    <<RUST, DISTRIBUTED, KUBERNETES>>,
    <<RUST, RUST, DISTRIBUTED, GO>>,
    [j \in 1..10 |-> IF j <= 7 THEN RUST ELSE GO]}

\* make_bullet of the contract tests.
make_draft_bullet(text, keywords) ==
   [text |-> text,
    source_entry_id |-> 0,
    section |-> "experience",
    line_estimate |-> 1,
    jd_keywords_used |-> keywords]

\* Line counts and review flags as the loop returns them: a bullet of three
\* or more lines is always flagged.
FillLineStates ==
   {<<1, FALSE>>, <<1, TRUE>>, <<2, FALSE>>, <<7, TRUE>>, <<9, TRUE>>}

\* Used-keyword lists matching 0, 1 and 2 of the JD keywords.
FillKeywordLists ==
   {<<>>, <<<<"R", "U", "S", "T">>, <<"g", "o">>>>, <<RUST, DISTRIBUTED>>}

FillBullets ==
   {make_bullet(ls[1], kws, ls[2]) : ls \in FillLineStates, kws \in FillKeywordLists}

FillBulletLists == UNION {[1..n -> FillBullets] : n \in 0..MaxFillBullets}

\* Pages of 10, 20, 24 and 25 usable lines.
FillConfigs ==
   {[default_page_config("Inter") EXCEPT !.usable_height_lines = h] :
       h \in {10, 20, 24, 25}}

\* The analyses the page fill tests build by hand.
HandBuiltAnalyses ==
   {[total_lines_used |-> 30, total_lines_available |-> 45,
     whitespace_fraction |-> Frac(33, 100), overflow_fraction |-> Frac(0, 1),
     verdict |-> "TooMuchWhitespace"],
    [total_lines_used |-> 47, total_lines_available |-> 45,
     whitespace_fraction |-> Frac(0, 1), overflow_fraction |-> Frac(44, 1000),
     verdict |-> "MinorOverflow"],
    [total_lines_used |-> 50, total_lines_available |-> 45,
     whitespace_fraction |-> Frac(0, 1), overflow_fraction |-> Frac(11, 100),
     verdict |-> "MajorOverflow"]}

(***************************************************************************)
(* State                                                                   *)
(***************************************************************************)
VARIABLES
   bullets,            \* input: the draft bullets of the run
   config,             \* input: the page configuration of the run
   pc,                 \* position of run_simulation_loop
   sim_bullets,        \* the loop's private Vec<SimulatedBullet>
   total_passes,
   llm_calls_made,
   pass,               \* `_pass`, the loop index 0..MAX_PASSES-1
   bullets_snapshot,   \* the clone moved into spawn_blocking
   violations,         \* result of the current pass's measurement
   vi,                 \* position in `for (idx, coverage_result) in &violations`
   gateway_call,       \* the call awaited at the gateway, or None
   gateway_outcome,    \* how the call that has just returned ended, or None
   violations_remaining,
   flagged_count,
   ret,                \* what run_simulation_loop returned, None while running
   pass_calls,         \* history: bullet indices sent to the gateway this pass
   violating_pairs,    \* history: number of (pass, violating bullet) pairs
   gateway,            \* input: what the LLM gateway answers in this run
   measurements_in_flight,   \* spawn_blocking tasks of the run not yet joined
   gateway_calls_in_flight,  \* call_json futures of the run not yet resolved
   bullet_calls,       \* history: gateway calls issued per bullet index
   bullet_violations,  \* history: in-loop measurements each bullet violated at
   cc_pc,              \* check_contract call: position
   cc_text,            \* check_contract call: input text
   cc_config,          \* check_contract call: input page configuration
   cc_result,          \* check_contract call: returned LineCoverageResult
   pf_pc,              \* page fill: position of the caller
   pf_bullets,         \* page fill: the simulated bullets
   pf_config,          \* page fill: the page configuration
   pf_jd,              \* page fill: the parsed JD
   pf_analysis,        \* page fill: the PageFillAnalysis at hand, or None
   pf_action,          \* page fill: the FillAction recommended, or None
   sp_pc,              \* score_promotion call: position
   sp_bullet,          \* score_promotion call: the draft bullet
   sp_jd,              \* score_promotion call: the parsed JD
   sp_score,           \* score_promotion call: returned PromotionScore
   wr_pc,              \* simulate_lines at two widths: position of the caller
   wr_text,            \* simulate_lines at two widths: the text
   wr_narrow,          \* the page configuration with the smaller text_width_em
   wr_wide,            \* the same configuration with a greater text_width_em
   wr_counts,          \* the line counts returned so far, narrow first
   lc_pc,              \* LlmClient::call_json: position
   lc_attempt,         \* `attempt`, the loop index 0..MAX_RETRIES-1
   lc_last_error,      \* `last_error`
   lc_call_ret,        \* what LlmClient::call returned, or None
   lc_ret,             \* what call_json returned, or None
   lc_outcomes         \* history: how each HTTP attempt of the call ended

vars ==
   <<bullets, config, pc, sim_bullets, total_passes, llm_calls_made, pass,
     bullets_snapshot, violations, vi, gateway_call, gateway_outcome,
     violations_remaining, flagged_count, ret, pass_calls, violating_pairs,
     gateway, measurements_in_flight, gateway_calls_in_flight, bullet_calls,
     bullet_violations, cc_pc, cc_text, cc_config, cc_result,
     pf_pc, pf_bullets, pf_config, pf_jd, pf_analysis, pf_action,
     sp_pc, sp_bullet, sp_jd, sp_score,
     wr_pc, wr_text, wr_narrow, wr_wide, wr_counts,
     lc_pc, lc_attempt, lc_last_error, lc_call_ret, lc_ret, lc_outcomes>>

loop_vars ==
   <<bullets, config, pc, sim_bullets, total_passes, llm_calls_made, pass,
     bullets_snapshot, violations, vi, gateway_call, gateway_outcome,
     violations_remaining, flagged_count, ret, pass_calls, violating_pairs,
     gateway, measurements_in_flight, gateway_calls_in_flight, bullet_calls,
     bullet_violations>>

cc_vars == <<cc_pc, cc_text, cc_config, cc_result>>

\* The variables of the pure-function calls, which the loop leaves alone.
pf_vars == <<pf_pc, pf_bullets, pf_config, pf_jd, pf_analysis, pf_action>>

sp_vars == <<sp_pc, sp_bullet, sp_jd, sp_score>>

wr_vars == <<wr_pc, wr_text, wr_narrow, wr_wide, wr_counts>>

\* The variables of one LlmClient::call_json.
lc_vars ==
   <<lc_pc, lc_attempt, lc_last_error, lc_call_ret, lc_ret, lc_outcomes>>

pure_vars == <<cc_vars, pf_vars, sp_vars, wr_vars, lc_vars>>

LoopIdle ==
   /\ bullets = <<>>
   /\ config = default_page_config("Inter")
   /\ pc = "idle"
   /\ sim_bullets = <<>>
   /\ total_passes = 0
   /\ llm_calls_made = 0
   /\ pass = 0
   /\ bullets_snapshot = <<>>
   /\ violations = <<>>
   /\ vi = 1
   /\ gateway_call = None
   /\ gateway_outcome = None
   /\ violations_remaining = 0
   /\ flagged_count = 0
   /\ ret = None
   /\ pass_calls = <<>>
   /\ violating_pairs = 0
   /\ gateway = [texts |-> {}, failures |-> {}]
   /\ measurements_in_flight = 0
   /\ gateway_calls_in_flight = 0
   /\ bullet_calls = <<>>
   /\ bullet_violations = <<>>

ContractIdle ==
   /\ cc_pc = "idle"
   /\ cc_text = <<>>
   /\ cc_config = default_page_config("Inter")
   /\ cc_result = None

PageFillIdle ==
   /\ pf_pc = "idle"
   /\ pf_bullets = <<>>
   /\ pf_config = default_page_config("Inter")
   /\ pf_jd = [keyword_inventory |-> <<>>]
   /\ pf_analysis = None
   /\ pf_action = None

PromotionIdle ==
   /\ sp_pc = "idle"
   /\ sp_bullet = MakeDrafts(<<<<>>>>, 1)[1]
   /\ sp_jd = [keyword_inventory |-> <<>>]
   /\ sp_score = None

WrapIdle ==
   /\ wr_pc = "idle"
   /\ wr_text = <<>>
   /\ wr_narrow = default_page_config("Inter")
   /\ wr_wide = default_page_config("Inter")
   /\ wr_counts = <<>>

LlmCallIdle ==
   /\ lc_pc = "idle"
   /\ lc_attempt = 0
   /\ lc_last_error = None
   /\ lc_call_ret = None
   /\ lc_ret = None
   /\ lc_outcomes = <<>>

(***************************************************************************)
(* run_simulation_loop                                                     *)
(***************************************************************************)
\* The locals of run_simulation_loop before its first statement.
LoopEntry ==
   /\ pc = "start"
   /\ sim_bullets = <<>>
   /\ total_passes = 0
   /\ llm_calls_made = 0
   /\ pass = 0
   /\ bullets_snapshot = <<>>
   /\ violations = <<>>
   /\ vi = 1
   /\ gateway_call = None
   /\ gateway_outcome = None
   /\ violations_remaining = 0
   /\ flagged_count = 0
   /\ ret = None
   /\ pass_calls = <<>>
   /\ violating_pairs = 0
   /\ measurements_in_flight = 0
   /\ gateway_calls_in_flight = 0
   /\ bullet_calls = <<>>
   /\ bullet_violations = <<>>

\* A call with up to MaxBullets drafts on the narrow page and a gateway that
\* may answer any of GatewayTexts or fail.
InitCatalog ==
   /\ \E n \in 0..MaxBullets : \E texts \in [1..n -> DraftTexts] :
         \E estimate \in LineEstimates : bullets = MakeDrafts(texts, estimate)
   /\ config \in LoopConfigs
   /\ gateway = [texts |-> GatewayTexts, failures |-> GatewayFailures]

\* A call with one draft on the default Inter page and a stubbed gateway that
\* always answers with the same text.
InitStubbed ==
   \E run \in StubbedRuns :
      /\ bullets = MakeDrafts(<<run.draft>>, 1)
      /\ config = default_page_config("Inter")
      /\ gateway = [texts |-> {run.stub}, failures |-> {}]

\* A call with four drafts "W W", one more than the "maximum 3 two-line
\* bullets per page": each wraps to two lines on the narrow page, the second
\* filled to 0.89, and satisfies the contract.
InitTwoLine ==
   /\ bullets = MakeDrafts([i \in 1..4 |-> RepeatWord(<<"W">>, 2)], 2)
   /\ config = NarrowConfig("Inter")
   /\ gateway = [texts |-> GatewayTexts, failures |-> GatewayFailures]

Init ==
   /\ InitCatalog \/ InitStubbed \/ InitTwoLine
   /\ LoopEntry
   /\ ContractIdle
   /\ PageFillIdle
   /\ PromotionIdle
   /\ WrapIdle
   /\ LlmCallIdle

\* Lines 88-91: project the drafts, zero the counters, enter the for loop.
Start ==
   /\ pc = "start"
   /\ sim_bullets' = init_simulated(bullets)
   /\ total_passes' = 0
   /\ llm_calls_made' = 0
   /\ pass' = 0
   /\ pc' = "pass"
   /\ UNCHANGED <<bullets, config, bullets_snapshot, violations, vi,
                  gateway_call, gateway_outcome, violations_remaining,
                  flagged_count, ret, pass_calls, violating_pairs>>
   /\ bullet_calls' = [i \in 1..Len(bullets) |-> 0]
   /\ bullet_violations' = [i \in 1..Len(bullets) |-> 0]
   /\ UNCHANGED <<gateway, measurements_in_flight, gateway_calls_in_flight>>
   /\ UNCHANGED pure_vars

\* Lines 93-102: loop head; count the pass and hand a snapshot to the worker.
PassDispatch ==
   /\ pc = "pass"
   /\ pass < MAX_PASSES
   /\ total_passes' = total_passes + 1
   /\ bullets_snapshot' = sim_bullets
   /\ gateway_outcome' = None
   /\ pc' = "pass_await"
   /\ UNCHANGED <<bullets, config, sim_bullets, llm_calls_made, pass,
                  violations, vi, gateway_call, violations_remaining,
                  flagged_count, ret, pass_calls, violating_pairs>>
   /\ measurements_in_flight' = measurements_in_flight + 1
   /\ UNCHANGED <<gateway, gateway_calls_in_flight, bullet_calls>>
   /\ UNCHANGED bullet_violations
   /\ UNCHANGED pure_vars

\* PassJoin without the break: a clean measurement goes on to the next pass.
PassJoin_no_break ==
   /\ pc = "pass_await"
   /\ \E v \in {run_single_pass_sync(bullets_snapshot,
                                     get_metrics(config.font), config)} :
          /\ violations' = v
          /\ violating_pairs' = violating_pairs + Len(v)
          /\ bullet_violations' =
                [i \in 1..Len(bullet_violations) |->
                   IF \E k \in 1..Len(v) : v[k].idx = i
                      THEN bullet_violations[i] + 1
                      ELSE bullet_violations[i]]
          /\ pc' = IF v # <<>> THEN "remediate"
                   ELSE IF pass + 1 < MAX_PASSES THEN "pass" ELSE "final"
          /\ pass' = IF v # <<>> THEN pass ELSE pass + 1
   /\ vi' = 1
   /\ pass_calls' = <<>>
   /\ UNCHANGED <<bullets, config, sim_bullets, total_passes, llm_calls_made,
                  bullets_snapshot, gateway_call, gateway_outcome,
                  violations_remaining, flagged_count, ret>>
   /\ measurements_in_flight' = measurements_in_flight - 1
   /\ UNCHANGED <<gateway, gateway_calls_in_flight, bullet_calls>>
   /\ UNCHANGED pure_vars

\* Lines 99-110: the measurement returns; break when nothing violates.
PassJoin ==
   /\ pc = "pass_await"
   /\ \E v \in {run_single_pass_sync(bullets_snapshot,
                                     get_metrics(config.font), config)} :
          /\ violations' = v
          /\ violating_pairs' = violating_pairs + Len(v)
          /\ bullet_violations' =
                [i \in 1..Len(bullet_violations) |->
                   IF \E k \in 1..Len(v) : v[k].idx = i
                      THEN bullet_violations[i] + 1
                      ELSE bullet_violations[i]]
          /\ pc' = IF v = <<>> THEN "final" ELSE "remediate"
   /\ vi' = 1
   /\ pass_calls' = <<>>
   /\ UNCHANGED <<bullets, config, sim_bullets, total_passes, llm_calls_made,
                  pass, bullets_snapshot, gateway_call, gateway_outcome,
                  violations_remaining, flagged_count, ret>>
   /\ measurements_in_flight' = measurements_in_flight - 1
   /\ UNCHANGED <<gateway, gateway_calls_in_flight, bullet_calls>>
   /\ UNCHANGED pure_vars

\* Lines 103-106: the JoinError of spawn_blocking becomes AppError::Internal.
PassJoinError ==
   /\ pc = "pass_await"
   /\ ret' = Err("Internal", "spawn_blocking failed in simulation")
   /\ pc' = "done"
   /\ UNCHANGED <<bullets, config, sim_bullets, total_passes, llm_calls_made,
                  pass, bullets_snapshot, violations, vi, gateway_call,
                  gateway_outcome, violations_remaining, flagged_count,
                  pass_calls, violating_pairs>>
   /\ measurements_in_flight' = measurements_in_flight - 1
   /\ UNCHANGED <<gateway, gateway_calls_in_flight, bullet_calls>>
   /\ UNCHANGED bullet_violations
   /\ UNCHANGED pure_vars

\* CallIssue that starts the call and moves on to the next violation without
\* awaiting the answer.
CallIssue_not_awaited ==
   /\ pc = "remediate"
   /\ vi <= Len(violations)
   /\ LET idx == violations[vi].idx
          coverage_result == violations[vi].result
          bullet == sim_bullets[idx]
          char_budget == estimate_char_budget(config)
      IN  /\ gateway_call' =
                Some(adjust_call(coverage_result.verdict, bullet.text, char_budget))
          /\ pass_calls' = Append(pass_calls, idx)
   /\ llm_calls_made' = llm_calls_made + 1
   /\ gateway_outcome' = None
   /\ pc' = IF vi < Len(violations) THEN "remediate" ELSE "llm_await"
   /\ vi' = IF vi < Len(violations) THEN vi + 1 ELSE vi
   /\ UNCHANGED <<bullets, config, sim_bullets, total_passes, pass,
                  bullets_snapshot, violations, violations_remaining,
                  flagged_count, ret, violating_pairs>>
   /\ gateway_calls_in_flight' = gateway_calls_in_flight + 1
   /\ bullet_calls' = [bullet_calls EXCEPT ![violations[vi].idx] = @ + 1]
   /\ UNCHANGED bullet_violations
   /\ UNCHANGED <<gateway, measurements_in_flight>>
   /\ UNCHANGED pure_vars

\* Lines 113-144: next violation; count the call and send it to the gateway.
CallIssue ==
   /\ pc = "remediate"
   /\ vi <= Len(violations)
   /\ LET idx == violations[vi].idx
          coverage_result == violations[vi].result
          bullet == sim_bullets[idx]
          char_budget == estimate_char_budget(config)
      IN  /\ gateway_call' =
                Some(adjust_call(coverage_result.verdict, bullet.text, char_budget))
          /\ pass_calls' = Append(pass_calls, idx)
   /\ llm_calls_made' = llm_calls_made + 1
   /\ gateway_outcome' = None
   /\ pc' = "llm_await"
   /\ UNCHANGED <<bullets, config, sim_bullets, total_passes, pass,
                  bullets_snapshot, violations, vi, violations_remaining,
                  flagged_count, ret, violating_pairs>>
   /\ gateway_calls_in_flight' = gateway_calls_in_flight + 1
   /\ bullet_calls' = [bullet_calls EXCEPT ![violations[vi].idx] = @ + 1]
   /\ UNCHANGED bullet_violations
   /\ UNCHANGED <<gateway, measurements_in_flight>>
   /\ UNCHANGED pure_vars

\* FinishCall writing the adjusted text through to the caller's drafts as well.
FinishCall_in_place(outcome, adjusted_text) ==
   /\ gateway_outcome' = outcome
   /\ LET idx == violations[vi].idx
      IN  sim_bullets' =
             [sim_bullets EXCEPT ![idx] = apply_adjusted(@, adjusted_text)]
   /\ bullets' = [bullets EXCEPT ![violations[vi].idx].text = adjusted_text]
   /\ gateway_call' = None
   /\ IF vi < Len(violations)
         THEN /\ vi' = vi + 1
              /\ pc' = "remediate"
              /\ pass' = pass
         ELSE /\ vi' = 1
              /\ pass' = pass + 1
              /\ pc' = IF pass + 1 < MAX_PASSES THEN "pass" ELSE "final"
   /\ UNCHANGED <<config, total_passes, llm_calls_made,
                  bullets_snapshot, violations, violations_remaining,
                  flagged_count, ret, pass_calls, violating_pairs>>
   /\ gateway_calls_in_flight' = gateway_calls_in_flight - 1
   /\ UNCHANGED <<gateway, measurements_in_flight, bullet_calls>>
   /\ UNCHANGED bullet_violations
   /\ UNCHANGED pure_vars

\* Lines 149-154: store the adjusted text, then the next violation, the next
\* pass, or the end of the for loop.
FinishCall(outcome, adjusted_text) ==
   /\ gateway_outcome' = outcome
   /\ LET idx == violations[vi].idx
      IN  sim_bullets' =
             [sim_bullets EXCEPT ![idx] = apply_adjusted(@, adjusted_text)]
   /\ gateway_call' = None
   /\ IF vi < Len(violations)
         THEN /\ vi' = vi + 1
              /\ pc' = "remediate"
              /\ pass' = pass
         ELSE /\ vi' = 1
              /\ pass' = pass + 1
              /\ pc' = IF pass + 1 < MAX_PASSES THEN "pass" ELSE "final"
   /\ UNCHANGED <<bullets, config, total_passes, llm_calls_made,
                  bullets_snapshot, violations, violations_remaining,
                  flagged_count, ret, pass_calls, violating_pairs>>
   /\ gateway_calls_in_flight' = gateway_calls_in_flight - 1
   /\ UNCHANGED <<gateway, measurements_in_flight, bullet_calls>>
   /\ UNCHANGED bullet_violations
   /\ UNCHANGED pure_vars

\* expand_bullet / compress_bullet returned Ok(result.text).
CallReturnOk ==
   /\ pc = "llm_await"
   /\ \E text \in gateway.texts : FinishCall(GatewayOk(text), text)

\* CallReturnErr with `?` in place of unwrap_or_else: the error is returned.
CallReturnErr_propagates ==
   /\ pc = "llm_await"
   /\ \E failure \in gateway.failures :
         /\ gateway_outcome' = GatewayErr(failure)
         /\ ret' = Err("Llm", "Expand LLM call failed")
   /\ gateway_call' = None
   /\ pc' = "done"
   /\ UNCHANGED <<bullets, config, sim_bullets, total_passes, llm_calls_made,
                  pass, bullets_snapshot, violations, vi, violations_remaining,
                  flagged_count, pass_calls, violating_pairs>>
   /\ gateway_calls_in_flight' = gateway_calls_in_flight - 1
   /\ UNCHANGED <<gateway, measurements_in_flight, bullet_calls>>
   /\ UNCHANGED bullet_violations
   /\ UNCHANGED pure_vars

\* expand_bullet / compress_bullet returned Err: unwrap_or_else keeps the text.
CallReturnErr ==
   /\ pc = "llm_await"
   /\ \E failure \in gateway.failures :
         FinishCall(GatewayErr(failure), sim_bullets[violations[vi].idx].text)

\* Lines 157-163: the final violation pass is handed to the worker.
FinalDispatch ==
   /\ pc = "final"
   /\ bullets_snapshot' = sim_bullets
   /\ pc' = "final_await"
   /\ gateway_outcome' = None
   /\ UNCHANGED <<bullets, config, sim_bullets, total_passes, llm_calls_made,
                  pass, violations, vi, gateway_call, violations_remaining,
                  flagged_count, ret, pass_calls, violating_pairs>>
   /\ measurements_in_flight' = measurements_in_flight + 1
   /\ UNCHANGED <<gateway, gateway_calls_in_flight, bullet_calls>>
   /\ UNCHANGED bullet_violations
   /\ UNCHANGED pure_vars

\* Lines 159-177: flag the residual violators and count them.
FinalJoin ==
   /\ pc = "final_await"
   /\ \E final_violations \in
            {run_single_pass_sync(bullets_snapshot,
                                  get_metrics(config.font), config)} :
          /\ violations_remaining' = Len(final_violations)
          /\ flagged_count' = Len(final_violations)
          /\ sim_bullets' = flag_violators(sim_bullets, final_violations)
   /\ pc' = "count"
   /\ UNCHANGED <<bullets, config, total_passes, llm_calls_made, pass,
                  bullets_snapshot, violations, vi, gateway_call,
                  gateway_outcome, ret, pass_calls, violating_pairs>>
   /\ measurements_in_flight' = measurements_in_flight - 1
   /\ UNCHANGED <<gateway, gateway_calls_in_flight, bullet_calls>>
   /\ UNCHANGED bullet_violations
   /\ UNCHANGED pure_vars

\* Lines 164-169
FinalJoinError ==
   /\ pc = "final_await"
   /\ ret' = Err("Internal", "spawn_blocking failed in final simulation pass")
   /\ pc' = "done"
   /\ UNCHANGED <<bullets, config, sim_bullets, total_passes, llm_calls_made,
                  pass, bullets_snapshot, violations, vi, gateway_call,
                  gateway_outcome, violations_remaining, flagged_count,
                  pass_calls, violating_pairs>>
   /\ measurements_in_flight' = measurements_in_flight - 1
   /\ UNCHANGED <<gateway, gateway_calls_in_flight, bullet_calls>>
   /\ UNCHANGED bullet_violations
   /\ UNCHANGED pure_vars

\* Lines 188-200: the line-count measurement is handed to the worker.
CountDispatch ==
   /\ pc = "count"
   /\ bullets_snapshot' = sim_bullets
   /\ pc' = "count_await"
   /\ UNCHANGED <<bullets, config, sim_bullets, total_passes, llm_calls_made,
                  pass, violations, vi, gateway_call, gateway_outcome,
                  violations_remaining, flagged_count, ret, pass_calls,
                  violating_pairs>>
   /\ measurements_in_flight' = measurements_in_flight + 1
   /\ UNCHANGED <<gateway, gateway_calls_in_flight, bullet_calls>>
   /\ UNCHANGED bullet_violations
   /\ UNCHANGED pure_vars

\* Lines 190-218: write the verified line counts and return the result.
CountJoin ==
   /\ pc = "count_await"
   /\ \E line_counts \in
            {measure_line_counts(bullets_snapshot,
                                 get_metrics(config.font), config)} :
       \E counted \in
            {[i \in 1..Len(sim_bullets) |->
                [sim_bullets[i] EXCEPT !.verified_line_count = line_counts[i]]]} :
          /\ sim_bullets' = counted
          /\ ret' = Ok([bullets |-> counted,
                        total_passes |-> total_passes,
                        violations_remaining |-> violations_remaining,
                        flagged_count |-> flagged_count,
                        llm_calls_made |-> llm_calls_made])
   /\ pc' = "done"
   /\ UNCHANGED <<bullets, config, total_passes, llm_calls_made, pass,
                  bullets_snapshot, violations, vi, gateway_call,
                  gateway_outcome, violations_remaining, flagged_count,
                  pass_calls, violating_pairs>>
   /\ measurements_in_flight' = measurements_in_flight - 1
   /\ UNCHANGED <<gateway, gateway_calls_in_flight, bullet_calls>>
   /\ UNCHANGED bullet_violations
   /\ UNCHANGED pure_vars

\* Lines 201-206
CountJoinError ==
   /\ pc = "count_await"
   /\ ret' = Err("Internal", "spawn_blocking failed updating line counts")
   /\ pc' = "done"
   /\ UNCHANGED <<bullets, config, sim_bullets, total_passes, llm_calls_made,
                  pass, bullets_snapshot, violations, vi, gateway_call,
                  gateway_outcome, violations_remaining, flagged_count,
                  pass_calls, violating_pairs>>
   /\ measurements_in_flight' = measurements_in_flight - 1
   /\ UNCHANGED <<gateway, gateway_calls_in_flight, bullet_calls>>
   /\ UNCHANGED bullet_violations
   /\ UNCHANGED pure_vars

Next ==
   \/ Start
   \/ PassDispatch
   \/ PassJoin
   \/ PassJoinError
   \/ CallIssue
   \/ CallReturnOk
   \/ CallReturnErr
   \/ FinalDispatch
   \/ FinalJoin
   \/ FinalJoinError
   \/ CountDispatch
   \/ CountJoin
   \/ CountJoinError

Spec == Init /\ [][Next]_vars

\* Every awaited measurement and gateway call returns, and the executor keeps
\* polling the task.
FairSpec == Spec /\ WF_vars(Next)

\* The caller drops the future of run_simulation_loop while it is suspended at
\* an .await: the function never resumes and returns nothing.  The pending
\* call_json future is dropped with it; a spawn_blocking task already started
\* runs on detached.  The locals keep their last values here although nothing
\* can read them any more.
Cancel ==
   /\ pc \in {"pass_await", "llm_await", "final_await", "count_await"}
   /\ pc' = "cancelled"
   /\ gateway_call' = None
   /\ gateway_calls_in_flight' = 0
   /\ UNCHANGED <<bullets, config, sim_bullets, total_passes, llm_calls_made,
                  pass, bullets_snapshot, violations, vi, gateway_outcome,
                  violations_remaining, flagged_count, ret, pass_calls,
                  violating_pairs, gateway, measurements_in_flight,
                  bullet_calls, bullet_violations>>
   /\ UNCHANGED pure_vars

NextCancel == Next \/ Cancel

SpecCancel == Init /\ [][NextCancel]_vars

(***************************************************************************)
(* check_contract applied to one text                                      *)
(***************************************************************************)
InitContract ==
   /\ cc_pc = "input"
   /\ cc_text \in ContractTexts
   /\ cc_config \in ContractConfigs
   /\ cc_result = None
   /\ LoopIdle
   /\ PageFillIdle
   /\ PromotionIdle
   /\ WrapIdle
   /\ LlmCallIdle

CheckContract ==
   /\ cc_pc = "input"
   /\ cc_result' = check_contract(1, cc_text, get_metrics(cc_config.font), cc_config)
   /\ cc_pc' = "checked"
   /\ UNCHANGED <<cc_text, cc_config>>
   /\ UNCHANGED <<loop_vars, pf_vars, sp_vars, wr_vars, lc_vars>>

NextContract == CheckContract

SpecContract == InitContract /\ [][NextContract]_vars

(***************************************************************************)
(* analyze_page_fill and recommend_fill_action applied to one bullet list   *)
(***************************************************************************)
InitPageFill ==
   /\ pf_pc = "input"
   /\ pf_bullets \in FillBulletLists
   /\ pf_config \in FillConfigs
   /\ pf_jd = PAGE_FILL_JD
   /\ pf_analysis = None
   /\ pf_action = None
   /\ LoopIdle
   /\ ContractIdle
   /\ PromotionIdle
   /\ WrapIdle
   /\ LlmCallIdle

AnalyzePageFill ==
   /\ pf_pc = "input"
   /\ pf_analysis' = analyze_page_fill(pf_bullets, pf_config)
   /\ pf_pc' = "analyzed"
   /\ UNCHANGED <<pf_bullets, pf_config, pf_jd, pf_action>>
   /\ UNCHANGED <<loop_vars, cc_vars, sp_vars, wr_vars, lc_vars>>

\* The caller builds the PageFillAnalysis by hand, as the tests do.
SupplyAnalysis ==
   /\ pf_pc = "input"
   /\ Len(pf_bullets) <= MaxHandBuilt
   /\ pf_analysis' \in HandBuiltAnalyses
   /\ pf_pc' = "supplied"
   /\ UNCHANGED <<pf_bullets, pf_config, pf_jd, pf_action>>
   /\ UNCHANGED <<loop_vars, cc_vars, sp_vars, wr_vars, lc_vars>>

RecommendFillAction ==
   /\ pf_pc \in {"analyzed", "supplied"}
   /\ pf_action' = recommend_fill_action(pf_analysis, pf_bullets, pf_jd)
   /\ pf_pc' = IF pf_pc = "analyzed" THEN "recommended" ELSE "recommended_supplied"
   /\ UNCHANGED <<pf_bullets, pf_config, pf_jd, pf_analysis>>
   /\ UNCHANGED <<loop_vars, cc_vars, sp_vars, wr_vars, lc_vars>>

NextPageFill ==
   \/ AnalyzePageFill
   \/ SupplyAnalysis
   \/ RecommendFillAction

SpecPageFill == InitPageFill /\ [][NextPageFill]_vars

(***************************************************************************)
(* LlmClient::call_json                                                     *)
(***************************************************************************)
InitLlmCall ==
   /\ lc_pc = "loop"
   /\ lc_attempt = 0
   /\ lc_last_error = None
   /\ lc_call_ret = None
   /\ lc_ret = None
   /\ lc_outcomes = <<>>
   /\ LoopIdle
   /\ ContractIdle
   /\ PageFillIdle
   /\ PromotionIdle
   /\ WrapIdle

\* Lines 128-148: the next iteration; sleep before every attempt but the
\* first, then post the request.
AttemptStart ==
   /\ lc_pc = "loop"
   /\ lc_attempt < MAX_RETRIES
   /\ lc_pc' = IF lc_attempt > 0 THEN "sleep" ELSE "send_await"
   /\ UNCHANGED <<lc_attempt, lc_last_error, lc_call_ret, lc_ret, lc_outcomes>>
   /\ UNCHANGED <<loop_vars, cc_vars, pf_vars, sp_vars, wr_vars>>

\* Line 137: the backoff sleep is over; post the request.
BackoffElapsed ==
   /\ lc_pc = "sleep"
   /\ lc_pc' = "send_await"
   /\ UNCHANGED <<lc_attempt, lc_last_error, lc_call_ret, lc_ret, lc_outcomes>>
   /\ UNCHANGED <<loop_vars, cc_vars, pf_vars, sp_vars, wr_vars>>

\* Lines 150-156: send() failed; remember the error and continue.
TransportError ==
   /\ lc_pc = "send_await"
   /\ lc_last_error' = Some(LlmHttp)
   /\ lc_outcomes' = Append(lc_outcomes, [kind |-> "transport"])
   /\ lc_attempt' = lc_attempt + 1
   /\ lc_pc' = "loop"
   /\ UNCHANGED <<lc_call_ret, lc_ret>>
   /\ UNCHANGED <<loop_vars, cc_vars, pf_vars, sp_vars, wr_vars>>

\* Lines 158-168: a 429 or 5xx response; remember the error and continue.
ResponseRetryable ==
   /\ lc_pc = "send_await"
   /\ \E status \in HttpStatuses, body \in ErrorBodies :
         /\ status = 429 \/ is_server_error(status)
         /\ lc_last_error' = Some(LlmApi(status, body.raw))
         /\ lc_outcomes' =
               Append(lc_outcomes, [kind |-> "status", status |-> status])
   /\ lc_attempt' = lc_attempt + 1
   /\ lc_pc' = "loop"
   /\ UNCHANGED <<lc_call_ret, lc_ret>>
   /\ UNCHANGED <<loop_vars, cc_vars, pf_vars, sp_vars, wr_vars>>

\* Lines 170-180: any other status that is not a success; return the error.
ResponseRejected ==
   /\ lc_pc = "send_await"
   /\ \E status \in HttpStatuses, body \in ErrorBodies :
         /\ ~(status = 429 \/ is_server_error(status))
         /\ ~is_success(status)
         /\ lc_call_ret' =
               LlmErr(LlmApi(status,
                             IF body.error_message.tag = "Some"
                                THEN body.error_message.value
                                ELSE body.raw))
         /\ lc_outcomes' =
               Append(lc_outcomes, [kind |-> "status", status |-> status])
   /\ lc_pc' = "call_returned"
   /\ UNCHANGED <<lc_attempt, lc_last_error, lc_ret>>
   /\ UNCHANGED <<loop_vars, cc_vars, pf_vars, sp_vars, wr_vars>>

\* Lines 182-189: a success status; decode the body and return.
ResponseSuccess ==
   /\ lc_pc = "send_await"
   /\ \E status \in HttpStatuses, body \in SuccessBodies :
         /\ ~(status = 429 \/ is_server_error(status))
         /\ is_success(status)
         /\ lc_call_ret' =
               IF body.decodes THEN Ok([content |-> body.content])
                               ELSE LlmErr(LlmHttp)
         /\ lc_outcomes' =
               Append(lc_outcomes, [kind |-> "status", status |-> status])
   /\ lc_pc' = "call_returned"
   /\ UNCHANGED <<lc_attempt, lc_last_error, lc_ret>>
   /\ UNCHANGED <<loop_vars, cc_vars, pf_vars, sp_vars, wr_vars>>

\* Lines 192-194: the loop is over; return the last error.
RetriesExhausted ==
   /\ lc_pc = "loop"
   /\ lc_attempt >= MAX_RETRIES
   /\ lc_call_ret' =
         LlmErr(IF lc_last_error.tag = "Some" THEN lc_last_error.value
                ELSE [kind |-> "RateLimited",
                      retries |-> MAX_RETRIES])
   /\ lc_pc' = "call_returned"
   /\ UNCHANGED <<lc_attempt, lc_last_error, lc_ret, lc_outcomes>>
   /\ UNCHANGED <<loop_vars, cc_vars, pf_vars, sp_vars, wr_vars>>

\* Lines 204-211: call_json takes the text, strips the fences and parses it.
CallJsonReturn ==
   /\ lc_pc = "call_returned"
   /\ lc_ret' = call_json_finish(lc_call_ret)
   /\ lc_pc' = "done"
   /\ UNCHANGED <<lc_attempt, lc_last_error, lc_call_ret, lc_outcomes>>
   /\ UNCHANGED <<loop_vars, cc_vars, pf_vars, sp_vars, wr_vars>>

NextLlmCall ==
   \/ AttemptStart
   \/ BackoffElapsed
   \/ TransportError
   \/ ResponseRetryable
   \/ ResponseRejected
   \/ ResponseSuccess
   \/ RetriesExhausted
   \/ CallJsonReturn

SpecLlmCall == InitLlmCall /\ [][NextLlmCall]_vars

\* The HTTP client times every request out after 120 s, the backoff sleep is
\* finite, and the executor keeps polling the task.
FairSpecLlmCall == SpecLlmCall /\ WF_vars(NextLlmCall)

(***************************************************************************)
(* simulate_lines applied to one text at two text widths                    *)
(***************************************************************************)
InitWidths ==
   /\ wr_pc = "input"
   /\ wr_text \in ContractTexts
   /\ \E pair \in WidthPairs :
         /\ wr_narrow = pair[1]
         /\ wr_wide = pair[2]
   /\ wr_counts = <<>>
   /\ LoopIdle
   /\ ContractIdle
   /\ PageFillIdle
   /\ PromotionIdle
   /\ LlmCallIdle

SimulateNarrow ==
   /\ wr_pc = "input"
   /\ wr_counts' =
         <<simulate_lines(wr_text, get_metrics(wr_narrow.font), wr_narrow)[1]>>
   /\ wr_pc' = "narrow_done"
   /\ UNCHANGED <<wr_text, wr_narrow, wr_wide>>
   /\ UNCHANGED <<loop_vars, cc_vars, pf_vars, sp_vars, lc_vars>>

SimulateWide ==
   /\ wr_pc = "narrow_done"
   /\ wr_counts' =
         Append(wr_counts,
                simulate_lines(wr_text, get_metrics(wr_wide.font), wr_wide)[1])
   /\ wr_pc' = "done"
   /\ UNCHANGED <<wr_text, wr_narrow, wr_wide>>
   /\ UNCHANGED <<loop_vars, cc_vars, pf_vars, sp_vars, lc_vars>>

NextWidths ==
   \/ SimulateNarrow
   \/ SimulateWide

SpecWidths == InitWidths /\ [][NextWidths]_vars

(***************************************************************************)
(* score_promotion applied to one bullet and one parsed JD                  *)
(***************************************************************************)
InitPromotion ==
   /\ sp_pc = "input"
   /\ sp_bullet \in {make_draft_bullet(text, keywords) :
                        text \in PromotionTexts,
                        keywords \in PromotionKeywordLists}
   /\ sp_jd \in PromotionJDs
   /\ sp_score = None
   /\ LoopIdle
   /\ ContractIdle
   /\ PageFillIdle
   /\ WrapIdle
   /\ LlmCallIdle

ScorePromotion ==
   /\ sp_pc = "input"
   /\ sp_score' = score_promotion(sp_bullet, sp_jd)
   /\ sp_pc' = "scored"
   /\ UNCHANGED <<sp_bullet, sp_jd>>
   /\ UNCHANGED <<loop_vars, cc_vars, pf_vars, wr_vars, lc_vars>>

NextPromotion == ScorePromotion

SpecPromotion == InitPromotion /\ [][NextPromotion]_vars

(***************************************************************************)
(* Properties                                                              *)
(***************************************************************************)

\* C1: run_simulation_loop eventually returns when every awaited measurement
\* and gateway call returns; it runs at least 1 and at most 3 passes and
\* issues at most 3 gateway calls per bullet.
C1_TerminatesWithinBudget ==
   /\ <>(pc = "done" /\ ret.tag # "None")
   /\ [](/\ total_passes <= 3
         /\ llm_calls_made <= 3 * Len(bullets)
         /\ (pc = "done" => total_passes >= 1)
         /\ (ret.tag = "Ok" =>
               /\ ret.value.total_passes >= 1
               /\ ret.value.total_passes <= 3
               /\ ret.value.llm_calls_made <= 3 * Len(bullets)))

\* A run of two or more bullets that used the whole budget: three passes and
\* three calls for every bullet.
C1_Witness ==
   /\ ret.tag = "Ok"
   /\ Len(bullets) >= 2
   /\ ret.value.total_passes = 3
   /\ ret.value.llm_calls_made = 3 * Len(bullets)

\* C2: in a returned SimulationResult a bullet is flagged_for_review exactly
\* when check_contract on its returned text gives a verdict other than
\* Satisfies, and flagged_count and violations_remaining both equal the number
\* of flagged bullets.
C2_FlaggedIffViolates ==
   ret.tag = "Ok" =>
      LET out == ret.value.bullets
          flagged == {i \in 1..Len(out) : out[i].flagged_for_review}
      IN  /\ \A i \in 1..Len(out) :
                out[i].flagged_for_review
                   <=> check_contract(i, out[i].text, get_metrics(config.font),
                                      config).verdict.tag # "Satisfies"
          /\ ret.value.flagged_count = Cardinality(flagged)
          /\ ret.value.violations_remaining = Cardinality(flagged)

\* A result whose first bullet was rewritten and passes while a later bullet
\* is flagged.
C2_Witness ==
   /\ ret.tag = "Ok"
   /\ Len(ret.value.bullets) >= 2
   /\ ret.value.bullets[1].was_adjusted
   /\ ~ret.value.bullets[1].flagged_for_review
   /\ ret.value.bullets[2].flagged_for_review
   /\ ret.value.flagged_count = 1

\* C3: in a returned SimulationResult every verified_line_count is
\* max(1, line count simulate_lines reports for the returned text): at least 1,
\* 1 for a text without words, whatever the draft's line_estimate was.
C3_VerifiedLineCount ==
   ret.tag = "Ok" =>
      \A i \in 1..Len(ret.value.bullets) :
         LET b == ret.value.bullets[i]
             count == simulate_lines(b.text, get_metrics(config.font), config)[1]
         IN  /\ b.verified_line_count = IF count > 1 THEN count ELSE 1
             /\ b.verified_line_count >= 1
             /\ (split_whitespace(b.text) = <<>> => b.verified_line_count = 1)

\* A result with an empty bullet counted as 1 line against an estimate of 2,
\* and a bullet counted as 3 lines.
C3_Witness ==
   /\ ret.tag = "Ok"
   /\ \E i \in 1..Len(ret.value.bullets) :
         /\ ret.value.bullets[i].text = <<>>
         /\ bullets[i].line_estimate = 2
         /\ ret.value.bullets[i].verified_line_count = 1
   /\ \E i \in 1..Len(ret.value.bullets) :
         ret.value.bullets[i].verified_line_count = 3

\* C4: for a text whose greedy wrap produces N >= 3 lines (N the length of the
\* fill vector), check_contract returns TooLong with actual_lines = N.
C4_ThreeOrMoreLinesTooLong ==
   cc_pc = "checked" =>
      LET fills == simulate_lines(cc_text, get_metrics(cc_config.font),
                                  cc_config)[2]
      IN  Len(fills) >= 3 =>
             cc_result.verdict = [tag |-> "TooLong", actual_lines |-> Len(fills)]

\* C5: for a text whose greedy wrap produces at most 2 lines, check_contract
\* returns TooShort{line-1 fill, 0.80} or Satisfies by line-1 fill < 0.80 for
\* 0 or 1 lines, and SecondLineTooShort{line-2 fill} or Satisfies by line-2
\* fill < 0.70 for 2 lines.
C5_AtMostTwoLines ==
   cc_pc = "checked" =>
      LET fills == simulate_lines(cc_text, get_metrics(cc_config.font),
                                  cc_config)[2]
          l1 == IF fills = <<>> THEN [num |-> 0, den |-> 1] ELSE fills[1]
      IN  /\ Len(fills) <= 1 =>
                cc_result.verdict =
                   IF l1.num * 100 < 80 * l1.den
                      THEN [tag |-> "TooShort", fill_ratio |-> l1,
                            required |-> [num |-> 80, den |-> 100]]
                      ELSE [tag |-> "Satisfies"]
          /\ Len(fills) = 2 =>
                cc_result.verdict =
                   IF fills[2].num * 100 < 70 * fills[2].den
                      THEN [tag |-> "SecondLineTooShort", fill_ratio |-> fills[2]]
                      ELSE [tag |-> "Satisfies"]

\* A two-line text whose second line fills exactly 0.70 and whose first line
\* fills more than 0.80, judged Satisfies.
C5_Witness ==
   /\ cc_pc = "checked"
   /\ cc_result.simulated_line_count = 2
   /\ cc_result.line2_fill.tag = "Some"
   /\ cc_result.line2_fill.value.num * 100 = 70 * cc_result.line2_fill.value.den
   /\ cc_result.verdict.tag = "Satisfies"

\* C6: when the gateway call for a bullet fails, no bullet changes (text and
\* was_adjusted stay), the call stays counted in llm_calls_made, the loop goes
\* on to the next violation, the next pass or the final measurement, and
\* nothing is returned at that step.
C6_GatewayFailureIsLocal ==
   [][(pc = "llm_await" /\ gateway_outcome'.tag = "Err") =>
         /\ sim_bullets' = sim_bullets
         /\ llm_calls_made' = llm_calls_made
         /\ llm_calls_made = violating_pairs - Len(violations) + vi
         /\ ret.tag = "None" /\ ret' = ret
         /\ IF vi < Len(violations)
               THEN pc' = "remediate" /\ vi' = vi + 1 /\ pass' = pass
               ELSE /\ pass' = pass + 1
                    /\ pc' = IF pass + 1 < 3 THEN "pass" ELSE "final"]_vars

\* The gateway has just answered a bullet with a malformed response; the
\* bullet is as drafted and the next violation of the pass is up.
C6_Witness ==
   /\ gateway_outcome = [tag |-> "Err", failure |-> "malformed_response"]
   /\ pc = "remediate"
   /\ llm_calls_made >= 1
   /\ LET idx == pass_calls[Len(pass_calls)]
      IN  /\ sim_bullets[idx].text = bullets[idx].text
          /\ ~sim_bullets[idx].was_adjusted

C8_OneCallPerViolation ==
   LET metrics == get_metrics(config.font)
       Verdict(i) == check_contract(i, bullets_snapshot[i].text, metrics,
                                    config).verdict
       IsBudget(b) == /\ 2 * b * metrics.average_char_width
                            - metrics.average_char_width
                         <= 2 * config.text_width_em
                      /\ 2 * config.text_width_em
                         < 2 * b * metrics.average_char_width
                            + metrics.average_char_width
   IN  /\ \A k \in 1..Len(pass_calls) :
             k <= Len(violations) /\ pass_calls[k] = violations[k].idx
       /\ Len(pass_calls) = IF pc = "remediate" THEN vi - 1
                            ELSE IF pc = "llm_await" THEN vi
                            ELSE Len(violations)
       /\ pc \in {"remediate", "llm_await"} =>
             /\ {violations[k].idx : k \in 1..Len(violations)}
                   = {i \in 1..Len(bullets_snapshot) : Verdict(i).tag # "Satisfies"}
             /\ \A k \in 1..Len(violations) : \A m \in 1..Len(violations) :
                   violations[k].idx = violations[m].idx => k = m
             /\ llm_calls_made = violating_pairs - Len(violations) + Len(pass_calls)
       /\ pc \notin {"remediate", "llm_await"} => llm_calls_made = violating_pairs
       /\ ret.tag = "Ok" => ret.value.llm_calls_made = violating_pairs
       /\ pc = "llm_await" =>
             LET v == Verdict(violations[vi].idx)
                 call == gateway_call.value
             IN  /\ gateway_call.tag = "Some"
                 /\ v.tag = "TooShort" =>
                       call.kind = "expand" /\ IsBudget(call.char_budget)
                 /\ v.tag = "SecondLineTooShort" =>
                       /\ call.kind = "expand"
                       /\ call.char_budget % 2 = 0
                       /\ IsBudget(call.char_budget \div 2)
                 /\ v.tag = "TooLong" =>
                       /\ call.kind = "compress"
                       /\ IsBudget(call.char_budget)
                       /\ call.actual_lines = v.actual_lines

\* An expand call with the two-line budget is awaited for a bullet whose
\* second line is too short, in a pass in which another call was made before.
C8_Witness ==
   /\ pc = "llm_await"
   /\ violations[vi].result.verdict.tag = "SecondLineTooShort"
   /\ gateway_call.value.kind = "expand"
   /\ gateway_call.value.char_budget = 4
   /\ Len(pass_calls) >= 2

\* C9: within a pass the gateway calls go out in strictly ascending bullet
\* index order (so no bullet twice), each call carries the text and the
\* fill / line data that the pass's measurement saw, and the measurement
\* results do not change while the pass remediates: rewritten text is first
\* measured by the next measurement phase, whose snapshot is the current list.
C9_OrderedRemediation ==
   /\ [](/\ \A k \in 1..Len(pass_calls) : \A m \in 1..Len(pass_calls) :
               k < m => pass_calls[k] < pass_calls[m]
         /\ pc = "llm_await" =>
               LET idx == violations[vi].idx
                   seen == check_contract(idx, bullets_snapshot[idx].text,
                                          get_metrics(config.font), config)
                   call == gateway_call.value
               IN  /\ call.text = bullets_snapshot[idx].text
                   /\ seen.verdict.tag \in {"TooShort", "SecondLineTooShort"} =>
                         call.fill_ratio = seen.verdict.fill_ratio
                   /\ seen.verdict.tag = "TooLong" =>
                         call.actual_lines = seen.simulated_line_count)
   /\ [][/\ (pc \in {"remediate", "llm_await"}
               /\ pc' \in {"remediate", "llm_await"}) =>
               violations' = violations /\ bullets_snapshot' = bullets_snapshot
         /\ pc' \in {"pass_await", "final_await", "count_await"} =>
               bullets_snapshot' = sim_bullets]_vars

\* The second call of a later pass is awaited while the first bullet already
\* carries the text written in this pass, which differs from the snapshot.
C9_Witness ==
   /\ pc = "llm_await"
   /\ pass >= 1
   /\ Len(pass_calls) = 2
   /\ sim_bullets[pass_calls[1]].text # bullets_snapshot[pass_calls[1]].text

\* C10: run_simulation_loop returns an error only as AppError::Internal from a
\* failed measurement dispatch (in-loop pass, final violation pass or line
\* count measurement); after an error no SimulationResult is delivered, and a
\* SimulationResult comes only from the completed line-count measurement.
C10_OnlyDispatchFailureIsFatal ==
   /\ [](ret.tag = "Err" => ret.kind = "Internal" /\ pc = "done")
   /\ [][ret' # ret =>
            /\ ret.tag = "None"
            /\ pc' = "done"
            /\ ret'.tag = "Err" =>
                  \/ pc = "pass_await"
                       /\ ret'.context = "spawn_blocking failed in simulation"
                  \/ pc = "final_await"
                       /\ ret'.context
                            = "spawn_blocking failed in final simulation pass"
                  \/ pc = "count_await"
                       /\ ret'.context
                            = "spawn_blocking failed updating line counts"
            /\ ret'.tag = "Ok" => pc = "count_await"]_vars

\* The run ended with the Internal error of the final violation pass after
\* three passes in which gateway calls were made.
C10_Witness ==
   /\ pc = "done"
   /\ ret.tag = "Err"
   /\ ret.kind = "Internal"
   /\ ret.context = "spawn_blocking failed in final simulation pass"
   /\ total_passes = 3
   /\ llm_calls_made >= 1

\* C11: if the task running run_simulation_loop is cancelled at a suspension
\* point, the caller gets no value at all, then or later; the drafts the
\* caller passed in are never written; a bullet list is returned only by
\* the step that completes the final line-count measurement, as part of a
\* complete SimulationResult that carries the loop's whole private list.
C11_CancellationShowsNoList ==
   /\ [](pc = "cancelled" => ret.tag = "None")
   /\ [](ret.tag = "Ok" =>
            /\ pc = "done"
            /\ ret.value.bullets = sim_bullets
            /\ Len(ret.value.bullets) = Len(bullets)
            /\ \A i \in 1..Len(bullets) :
                  ret.value.bullets[i].verified_line_count >= 1)
   /\ [][/\ bullets' = bullets
         /\ pc = "cancelled" => pc' = "cancelled" /\ ret' = ret
         /\ ret' # ret => pc = "count_await" \/ ret'.tag = "Err"]_vars

\* The task was cancelled after a gateway answer had already rewritten a
\* bullet of the private list; nothing was returned and the draft is intact.
C11_Witness ==
   /\ pc = "cancelled"
   /\ ret.tag = "None"
   /\ \E i \in 1..Len(bullets) :
         /\ sim_bullets[i].was_adjusted
         /\ sim_bullets[i].text # bullets[i].text

\* C12: within a run at most one measurement is in flight, at most one gateway
\* call is in flight, and never both at once; a measurement is in flight
\* exactly while the loop awaits it and a gateway call exactly while the loop
\* awaits that call.
C12_PhasesAlternate ==
   /\ measurements_in_flight \in {0, 1}
   /\ gateway_calls_in_flight \in {0, 1}
   /\ measurements_in_flight + gateway_calls_in_flight <= 1
   /\ measurements_in_flight = 1
         <=> pc \in {"pass_await", "final_await", "count_await"}
   /\ gateway_calls_in_flight = 1 <=> pc = "llm_await"
   /\ gateway_call.tag = "Some" <=> gateway_calls_in_flight = 1

\* The second gateway call of the third pass is in flight, after three
\* measurements and several calls have come and gone.
C12_Witness ==
   /\ pc = "llm_await"
   /\ total_passes = 3
   /\ vi = 2
   /\ gateway_calls_in_flight = 1
   /\ measurements_in_flight = 0
   /\ llm_calls_made >= 4

\* C13: when the second measurement of a run is clean after a first
\* measurement with violations (every first rewrite satisfied the contract),
\* the run has total_passes = 2, llm_calls_made = the number of drafts that
\* violated, one call for each of them, and returns each of them with
\* was_adjusted = true and flagged_for_review = false.  The draft "Built it."
\* on the default Inter page with a gateway answering with the caching-layer
\* text is returned with that text, verified_line_count = 1, was_adjusted,
\* not flagged, total_passes = 2 and llm_calls_made = 1.
C13_FirstRewriteSucceeds ==
   LET violators ==
          {i \in 1..Len(bullets) :
             check_contract(i, bullets[i].text, get_metrics(config.font),
                            config).verdict.tag # "Satisfies"}
   IN  /\ (/\ pass = 1
           /\ \/ pc \in {"final", "final_await", "count", "count_await"}
              \/ ret.tag = "Ok") =>
             /\ violators # {}
             /\ total_passes = 2
             /\ llm_calls_made = Cardinality(violators)
             /\ \A i \in 1..Len(bullets) :
                   /\ bullet_calls[i] = IF i \in violators THEN 1 ELSE 0
                   /\ i \in violators => sim_bullets[i].was_adjusted
             /\ ret.tag = "Ok" =>
                   /\ ret.value.total_passes = 2
                   /\ ret.value.llm_calls_made = Cardinality(violators)
                   /\ \A i \in violators :
                         /\ ret.value.bullets[i].was_adjusted
                         /\ ~ret.value.bullets[i].flagged_for_review
       /\ (/\ ret.tag = "Ok"
           /\ Len(bullets) = 1
           /\ bullets[1].text = BUILT_IT
           /\ config = default_page_config("Inter")
           /\ gateway = [texts |-> {CACHING_LAYER}, failures |-> {}]) =>
             /\ ret.value.bullets[1].text = CACHING_LAYER
             /\ ret.value.bullets[1].was_adjusted
             /\ ~ret.value.bullets[1].flagged_for_review
             /\ ret.value.bullets[1].verified_line_count = 1
             /\ ret.value.total_passes = 2
             /\ ret.value.llm_calls_made = 1

\* "Built it." on the default Inter page has been returned rewritten to the
\* caching-layer text after two passes and one call.
C13_Witness ==
   /\ ret.tag = "Ok"
   /\ config = default_page_config("Inter")
   /\ bullets[1].text = BUILT_IT
   /\ ret.value.bullets[1].text = CACHING_LAYER
   /\ ret.value.total_passes = 2
   /\ ret.value.llm_calls_made = 1

\* C14 (as claimed): the draft "word " x 50 on the default Inter page with a
\* gateway answering "Built production-scale distributed systems" is returned
\* with verified_line_count = 1, flagged_for_review = false and
\* llm_calls_made = 1.
C14_CompressionSucceedsInOneCall ==
   (/\ ret.tag = "Ok"
    /\ Len(bullets) = 1
    /\ bullets[1].text = WORD_50
    /\ config = default_page_config("Inter")
    /\ gateway = [texts |-> {PRODUCTION_SCALE}, failures |-> {}]) =>
      /\ ret.value.bullets[1].verified_line_count = 1
      /\ ~ret.value.bullets[1].flagged_for_review
      /\ ret.value.llm_calls_made = 1

\* C14 (amended): that run returns the bullet with the gateway's text and
\* verified_line_count = 1, but with flagged_for_review = true, total_passes = 3
\* and llm_calls_made = 3: the returned text fills less than 0.80 of its single
\* line, so it is TooShort at the second and third measurement, is sent to
\* the gateway again each time, and still violates at the final measurement.
C14_CompressedTextStaysTooShort ==
   (/\ ret.tag = "Ok"
    /\ Len(bullets) = 1
    /\ bullets[1].text = WORD_50
    /\ config = default_page_config("Inter")
    /\ gateway = [texts |-> {PRODUCTION_SCALE}, failures |-> {}]) =>
      /\ ret.value.bullets[1].text = PRODUCTION_SCALE
      /\ ret.value.bullets[1].verified_line_count = 1
      /\ ret.value.bullets[1].was_adjusted
      /\ ret.value.bullets[1].flagged_for_review
      /\ ret.value.total_passes = 3
      /\ ret.value.llm_calls_made = 3
      /\ ret.value.flagged_count = 1
      /\ check_contract(1, PRODUCTION_SCALE, get_metrics(config.font),
                        config).verdict.tag = "TooShort"

\* The "word " x 50 run has returned.
C14_Witness ==
   /\ ret.tag = "Ok"
   /\ config = default_page_config("Inter")
   /\ bullets[1].text = WORD_50
   /\ gateway.texts = {PRODUCTION_SCALE}
   /\ ret.value.bullets[1].text = PRODUCTION_SCALE

\* C15: no bullet is sent to the gateway more than 3 times; at every point the
\* calls a bullet has received number the in-loop measurements it violated at
\* (less the call still to come in the running pass); a bullet that violated
\* at all 3 in-loop measurements and at the final one is returned flagged
\* after exactly 3 calls, with total_passes = 3.
C15_NonConvergingBulletIsFlagged ==
   /\ \A i \in 1..Len(bullet_calls) :
         /\ bullet_calls[i] <= 3
         /\ bullet_violations[i] <= 3
         /\ bullet_calls[i] <= bullet_violations[i]
         /\ pc \notin {"remediate", "llm_await"} =>
               bullet_calls[i] = bullet_violations[i]
   /\ ret.tag = "Ok" =>
         \A i \in 1..Len(bullets) :
            (/\ bullet_violations[i] = 3
             /\ check_contract(i, ret.value.bullets[i].text,
                               get_metrics(config.font),
                               config).verdict.tag # "Satisfies") =>
               /\ bullet_calls[i] = 3
               /\ ret.value.bullets[i].flagged_for_review
               /\ ret.value.total_passes = 3

\* "Built it." answered with "Built it." every time has been returned flagged
\* after three passes and three calls.
C15_Witness ==
   /\ ret.tag = "Ok"
   /\ config = default_page_config("Inter")
   /\ bullets[1].text = BUILT_IT
   /\ gateway.texts = {BUILT_IT}
   /\ bullet_calls[1] = 3
   /\ bullet_violations[1] = 3
   /\ ret.value.bullets[1].flagged_for_review
   /\ ret.value.bullets[1].verified_line_count = 1
   /\ ret.value.total_passes = 3
   /\ ret.value.llm_calls_made = 3

\* C16: analyze_page_fill reports total_lines_used = the sum of the bullets'
\* verified_line_count, total_lines_available = usable_height_lines, and with
\* r = total_lines_used / usable_height_lines: whitespace_fraction =
\* max(0, 1 - r), overflow_fraction = max(0, r - 1), and the verdict
\* MajorOverflow if r > 1.05, else MinorOverflow if r > 1.00, else
\* TooMuchWhitespace if whitespace_fraction > 0.08, else Acceptable.
C16_PageFillVerdict ==
   pf_pc \in {"analyzed", "recommended"} =>
      LET partial[k \in 0..Len(pf_bullets)] ==
             IF k = 0 THEN 0
             ELSE partial[k - 1] + pf_bullets[k].verified_line_count
          used == partial[Len(pf_bullets)]
          available == pf_config.usable_height_lines
          ws == pf_analysis.whitespace_fraction
          of == pf_analysis.overflow_fraction
      IN  /\ pf_analysis.total_lines_used = used
          /\ pf_analysis.total_lines_available = available
          /\ ws.num * available
                = (IF used < available THEN available - used ELSE 0) * ws.den
          /\ of.num * available
                = (IF used > available THEN used - available ELSE 0) * of.den
          /\ pf_analysis.verdict =
                IF 100 * used > 105 * available THEN "MajorOverflow"
                ELSE IF used > available THEN "MinorOverflow"
                ELSE IF 100 * (available - used) > 8 * available
                        THEN "TooMuchWhitespace"
                ELSE "Acceptable"

\* A page filled to exactly 1.05 has been judged MinorOverflow.
C16_Witness ==
   /\ pf_pc = "analyzed"
   /\ 100 * pf_analysis.total_lines_used
         = 105 * pf_analysis.total_lines_available
   /\ pf_analysis.verdict = "MinorOverflow"

\* C17: for a TooMuchWhitespace analysis recommend_fill_action returns
\* PromoteBullet{idx} where idx is, among the bullets with verified_line_count
\* = 1 and flagged_for_review = false, the one with the greatest JD-keyword
\* match count, and the lowest position among those that share that count.
C17_PromotesFirstBestCandidate ==
   (/\ pf_pc \in {"recommended", "recommended_supplied"}
    /\ pf_analysis.verdict = "TooMuchWhitespace") =>
      LET keywords == {to_lowercase(pf_jd.keyword_inventory[k].keyword) :
                          k \in 1..Len(pf_jd.keyword_inventory)}
          Matches(i) ==
             Cardinality({k \in 1..Len(pf_bullets[i].jd_keywords_used) :
                to_lowercase(pf_bullets[i].jd_keywords_used[k]) \in keywords})
          candidates == {i \in 1..Len(pf_bullets) :
                           /\ pf_bullets[i].verified_line_count = 1
                           /\ ~pf_bullets[i].flagged_for_review}
          best == {i \in candidates :
                     \A j \in candidates : Matches(j) <= Matches(i)}
      IN  candidates # {} =>
             /\ pf_action.tag = "PromoteBullet"
             /\ pf_action.bullet_index \in best
             /\ \A j \in best : pf_action.bullet_index <= j

C19_NoActionExactly ==
   pf_pc \in {"recommended", "recommended_supplied"} =>
      LET candidates == {i \in 1..Len(pf_bullets) :
                           /\ pf_bullets[i].verified_line_count = 1
                           /\ ~pf_bullets[i].flagged_for_review}
      IN  /\ pf_action = [tag |-> "NoAction"]
                <=> \/ pf_analysis.verdict = "Acceptable"
                    \/ /\ pf_analysis.verdict = "TooMuchWhitespace"
                       /\ candidates = {}
          /\ pf_action.tag \in {"NoAction", "PromoteBullet", "CompressBullet",
                                "RemoveBullet", "TightenSpacing"}

\* Too much whitespace with two bullets, neither a one-line bullet that is
\* not flagged: nothing is recommended.
C19_Witness ==
   /\ pf_pc = "recommended"
   /\ pf_analysis.verdict = "TooMuchWhitespace"
   /\ Len(pf_bullets) = 2
   /\ pf_bullets[1].flagged_for_review
   /\ pf_bullets[2].verified_line_count = 2
   /\ pf_action = [tag |-> "NoAction"]

C21_PromotionPassesGate ==
   (/\ pf_pc \in {"recommended", "recommended_supplied"}
    /\ pf_action.tag = "PromoteBullet") =>
      score_promotion(pf_bullets[pf_action.bullet_index],
                      pf_jd).eligible_for_two_lines

\* C22: run_simulation_loop returns one simulated bullet per draft, in the
\* drafts' order, each with the source_entry_id, section and jd_keywords_used
\* of its draft, whatever the gateway returned.
C22_IdentityPreserved ==
   ret.tag = "Ok" =>
      LET out == ret.value.bullets
      IN  /\ Len(out) = Len(bullets)
          /\ \A i \in 1..Len(out) :
                /\ out[i].source_entry_id = bullets[i].source_entry_id
                /\ out[i].section = bullets[i].section
                /\ out[i].jd_keywords_used = bullets[i].jd_keywords_used
                /\ DOMAIN out[i] =
                      {"text", "source_entry_id", "section",
                       "verified_line_count", "jd_keywords_used",
                       "was_adjusted", "flagged_for_review"}

\* Two drafts returned in order, the second rewritten by the gateway and the
\* first not.
C22_Witness ==
   /\ ret.tag = "Ok"
   /\ Len(ret.value.bullets) = 2
   /\ ret.value.bullets[1].source_entry_id = 1
   /\ ret.value.bullets[2].source_entry_id = 2
   /\ ~ret.value.bullets[1].was_adjusted
   /\ ret.value.bullets[2].was_adjusted
   /\ ret.value.bullets[2].text # bullets[2].text

\* C29: in a returned SimulationResult a bullet with was_adjusted = false has
\* exactly its draft text, and a bullet whose draft text satisfies the contract
\* was never sent to the gateway and is returned with its draft text,
\* was_adjusted = false and flagged_for_review = false.
C29_UntouchedBulletsKeepText ==
   ret.tag = "Ok" =>
      LET out == ret.value.bullets
      IN  \A i \in 1..Len(out) :
             /\ ~out[i].was_adjusted => out[i].text = bullets[i].text
             /\ check_contract(i, bullets[i].text, get_metrics(config.font),
                               config).verdict.tag = "Satisfies"
                   => /\ bullet_calls[i] = 0
                      /\ out[i].text = bullets[i].text
                      /\ ~out[i].was_adjusted
                      /\ ~out[i].flagged_for_review

\* A satisfying first draft returned untouched next to a second bullet that
\* was sent to the gateway three times, rewritten and flagged.
C29_Witness ==
   /\ ret.tag = "Ok"
   /\ Len(ret.value.bullets) = 2
   /\ bullet_calls = <<0, 3>>
   /\ ret.value.bullets[1].text = bullets[1].text
   /\ ~ret.value.bullets[1].was_adjusted
   /\ ret.value.bullets[2].was_adjusted
   /\ ret.value.bullets[2].flagged_for_review

\* C30: in a returned SimulationResult flagged_count > 0 implies
\* total_passes = 3, and total_passes = 1 holds exactly when
\* llm_calls_made = 0.
C30_FlagsOnlyAfterAllPasses ==
   ret.tag = "Ok" =>
      /\ ret.value.flagged_count > 0 => ret.value.total_passes = 3
      /\ ret.value.total_passes < 3 =>
            \A i \in 1..Len(ret.value.bullets) :
               ~ret.value.bullets[i].flagged_for_review
      /\ ret.value.total_passes = 1 <=> ret.value.llm_calls_made = 0

\* A run whose third measurement is clean: three passes, gateway calls made,
\* nothing flagged.
C30_Witness ==
   /\ ret.tag = "Ok"
   /\ ret.value.total_passes = 3
   /\ ret.value.llm_calls_made > 0
   /\ ret.value.flagged_count = 0
   /\ pass = 2

\* C23: whenever the greedy wrap reports a simulated line count of 1, the
\* reported line-1 fill is <= 1.0.
C23_OneLineFillAtMostOne ==
   (cc_pc = "checked" /\ cc_result.simulated_line_count = 1) =>
      cc_result.line1_fill.num <= cc_result.line1_fill.den

\* C25: in every SimulationResult returned by run_simulation_loop the number
\* of bullets with verified_line_count = 2 is at most 3.
C25_AtMostThreeTwoLineBullets ==
   ret.tag = "Ok" =>
      Cardinality({i \in 1..Len(ret.value.bullets) :
                      ret.value.bullets[i].verified_line_count = 2}) <= 3

\* C27: when recommend_fill_action picks a bullet for CompressBullet or
\* RemoveBullet and the bullet picked is flagged for review, no unflagged
\* bullet has the same smallest JD-keyword match count.
C27_FlaggedBulletsDeprioritized ==
   (/\ pf_pc \in {"recommended", "recommended_supplied"}
    /\ pf_action.tag \in {"CompressBullet", "RemoveBullet"}) =>
      LET keywords == {to_lowercase(pf_jd.keyword_inventory[k].keyword) :
                          k \in 1..Len(pf_jd.keyword_inventory)}
          Matches(i) ==
             Cardinality({k \in 1..Len(pf_bullets[i].jd_keywords_used) :
                to_lowercase(pf_bullets[i].jd_keywords_used[k]) \in keywords})
          lowest == {i \in 1..Len(pf_bullets) :
                       \A j \in 1..Len(pf_bullets) : Matches(i) <= Matches(j)}
      IN  /\ pf_action.bullet_index \in lowest
          /\ pf_bullets[pf_action.bullet_index].flagged_for_review
                => \A j \in lowest : pf_bullets[j].flagged_for_review

\* C26: when the parsed JD has no keyword with position_weight >= 0.6,
\* score_promotion reports technical_depth = 0.5, and with such a JD there are
\* bullets for which it returns eligible_for_two_lines = true.
C26_LowWeightJDCanBeEligible ==
   (/\ sp_pc = "scored"
    /\ \A k \in 1..Len(sp_jd.keyword_inventory) :
          sp_jd.keyword_inventory[k].position_weight < 60) =>
      /\ sp_score.technical_depth.num * 2 = sp_score.technical_depth.den
      /\ \E text \in PromotionTexts, keywords \in PromotionKeywordLists :
            score_promotion(make_draft_bullet(text, keywords),
                            sp_jd).eligible_for_two_lines

\* C26, amended: when the parsed JD has no keyword with position_weight >=
\* 0.6, score_promotion reports technical_depth = 0.5 and jd_relevance = 0.0,
\* and eligible_for_two_lines = false.
C26_LowWeightJDNeverEligible ==
   (/\ sp_pc = "scored"
    /\ \A k \in 1..Len(sp_jd.keyword_inventory) :
          sp_jd.keyword_inventory[k].position_weight < 60) =>
      /\ sp_score.technical_depth.num * 2 = sp_score.technical_depth.den
      /\ sp_score.jd_relevance.num = 0
      /\ ~sp_score.eligible_for_two_lines

\* A quantified bullet naming both keywords of a JD whose keywords are all
\* low-weight, with both among its used keywords.
C26_Witness ==
   /\ sp_pc = "scored"
   /\ Len(sp_jd.keyword_inventory) = 2
   /\ sp_jd.keyword_inventory[1].position_weight = 50
   /\ sp_bullet.jd_keywords_used = <<RUST, DISTRIBUTED>>
   /\ sp_bullet.text = JoinWords(<<DISTRIBUTED, RUST, <<"4", "0", "%">>>>)
   /\ sp_score.quantified_outcome = Frac(1, 1)
   /\ ~sp_score.eligible_for_two_lines

\* C24: for two page configurations that differ only in text_width_em, the
\* line count simulate_lines returns at the greater width is <= the line count
\* it returns at the smaller width.
C24_WiderNeverMoreLines ==
   wr_pc = "done" => wr_counts[2] <= wr_counts[1]

====
